---- MODULE Spec2Model ----
(***************************************************************************)
(* A model of the funscript library (src/plugins/funUtil/funlib_py), of    *)
(* the helpers of src/plugins/funUtil/funscript_utils.py and of the        *)
(* merger plugin (src/plugins/funscriptMerger/funscriptMerger.py).         *)
(*                                                                         *)
(* The library is a set of synchronous operations on owned data.  Each     *)
(* component is modelled by its own group of variables and its own         *)
(* specification; the variables of the other components stay idle.         *)
(*                                                                         *)
(*   SpecNorm   Funscript.normalize                                        *)
(*   SpecVer    get_funscript_version                                      *)
(*   SpecMerge  Funscript.mergeMultiAxis                                   *)
(*   SpecCodec  Funscript.toJSON and Funscript(json), round trips          *)
(*   SpecLimit  limitPeakSpeed                                             *)
(*   SpecSimplify  simplifyLinearCurve                                     *)
(*   SpecPeaks  isPeak and actionsAverageSpeed                             *)
(*   SpecDiscover  find_script_variants_and_axes                           *)
(*   SpecChain  smoothCurve, simplifyLinearCurve, limitPeakSpeed and       *)
(*              handySmooth one after another                              *)
(*   SpecEdge   the curve functions on degenerate action lists             *)
(*   SpecSeek   splitToSegments, binaryFindLeftBorder and clerpAt          *)
(*   SpecClone  Funscript.clone and the merged parent of mergeMultiAxis    *)
(*   SpecNames  get_merged_channels against the parser's channel names     *)
(*   SpecScene  process_scene on the files of one scene                    *)
(*   SpecUnmerge  unmerge_scene, with writes that fail                     *)
(***************************************************************************)
EXTENDS Integers, Sequences, FiniteSets, TLC

VARIABLES
    nInput,     \* normalize: the script as it was constructed
    nScript,    \* normalize: the script object (mutated in place by normalize)
    nPrev,      \* normalize: the script as it was before the latest call
    nCalls,     \* normalize: number of normalize() calls made so far
    vData,      \* version detection: the parsed JSON object
    vResult,    \* version detection: what get_funscript_version returned
    mScripts,   \* merge: the scripts handed to mergeMultiAxis
    mOptions,   \* merge: the options handed to mergeMultiAxis
    mResult,    \* merge: the returned list, or the exception raised
    cScript,    \* codec: the script object that is serialized
    cVersions,  \* codec: the format versions this run serializes to
    cStage,     \* codec: per version, how far the round trip got (0..3)
    cJson,      \* codec: per version, script.toJSON({'version': v})
    cParsed,    \* codec: per version, Funscript(cJson[v]) or the exception
    cJson2,     \* codec: per version, the parsed script serialized again
    lActions,   \* limitPeakSpeed: the action list passed in
    lMaxSpeed,  \* limitPeakSpeed: the maxSpeed passed in
    lResult,    \* limitPeakSpeed: what the call produced
    sCurve,     \* simplifyLinearCurve: the curve passed in
    sThreshold, \* simplifyLinearCurve: the threshold passed in
    sResult,    \* simplifyLinearCurve: what the call returned
    aActions,   \* curve statistics: the action list passed in
    aPeaks,     \* curve statistics: isPeak(actions, i) for every index i
    aAverage,   \* curve statistics: what actionsAverageSpeed returned
    dBase,      \* variant discovery: base_name, the video file name without extension
    dFiles,     \* variant discovery: the names os.listdir(directory) returns, in its order
    dListable,  \* variant discovery: FALSE when os.listdir raises OSError
    dPlan,      \* variant discovery: the (variants, axes) returned
    tActions,   \* transformation chain: the action list as it stands
    tPrev,      \* transformation chain: the list the latest transformation was given
    tLast,      \* transformation chain: the latest call, its arguments and the exception it raised
    tSteps,     \* transformation chain: the number of transformations applied
    eActions,   \* degenerate curves: the action list
    eCall,      \* degenerate curves: the function called on it, with its second argument
    eOutcome,   \* degenerate curves: what the call returned, or the exception it raised
    bActions,   \* segments and search: the action list, sorted by at
    bCall,      \* segments and search: the function called, with the time asked for
    bResult,    \* segments and search: what the call returned
    kSource,    \* the Funscript a new one is built from
    kCall,      \* the construction made, None before it
    kResult,    \* what the construction returned or raised
    gData,      \* the merged funscript read from a file
    gNames,     \* get_merged_channels(gData), None before the call
    gParsed,    \* the channel names of Funscript(gData), None before the call
    sFiles,     \* the funscript files of the scene: path -> content, None when idle
    sOriginals, \* whether the directory originalFunscripts/ exists
    sSettings,  \* the plugin settings of the run
    sLog        \* the calls made on the scene, each with what it returned and touched

normVars == <<nInput, nScript, nPrev, nCalls>>
verVars == <<vData, vResult>>
mergeVars == <<mScripts, mOptions, mResult>>
codecVars == <<cScript, cVersions, cStage, cJson, cParsed, cJson2>>

limitVars == <<lActions, lMaxSpeed, lResult>>
simplifyVars == <<sCurve, sThreshold, sResult>>
peakVars == <<aActions, aPeaks, aAverage>>
discoverVars == <<dBase, dFiles, dListable, dPlan>>
chainVars == <<tActions, tPrev, tLast, tSteps>>
edgeVars == <<eActions, eCall, eOutcome>>
seekVars == <<bActions, bCall, bResult>>
cloneVars == <<kSource, kCall, kResult>>
namesVars == <<gData, gNames, gParsed>>
sceneVars == <<sFiles, sOriginals, sSettings, sLog>>

vars == <<normVars, verVars, mergeVars, codecVars, limitVars, simplifyVars, peakVars, discoverVars, chainVars, edgeVars, seekVars, cloneVars, namesVars, sceneVars>>

\* The variables each component leaves alone.
outsideNorm == <<verVars, mergeVars, codecVars, limitVars, simplifyVars, peakVars, discoverVars, chainVars, edgeVars, seekVars, cloneVars, namesVars, sceneVars>>
outsideVer == <<normVars, mergeVars, codecVars, limitVars, simplifyVars, peakVars, discoverVars, chainVars, edgeVars, seekVars, cloneVars, namesVars, sceneVars>>
outsideMerge == <<normVars, verVars, codecVars, limitVars, simplifyVars, peakVars, discoverVars, chainVars, edgeVars, seekVars, cloneVars, namesVars, sceneVars>>
outsideCodec == <<normVars, verVars, mergeVars, limitVars, simplifyVars, peakVars, discoverVars, chainVars, edgeVars, seekVars, cloneVars, namesVars, sceneVars>>
outsideLimit == <<normVars, verVars, mergeVars, codecVars, simplifyVars, peakVars, discoverVars, chainVars, edgeVars, seekVars, cloneVars, namesVars, sceneVars>>
outsideSimplify == <<normVars, verVars, mergeVars, codecVars, limitVars, peakVars, discoverVars, chainVars, edgeVars, seekVars, cloneVars, namesVars, sceneVars>>
outsidePeaks == <<normVars, verVars, mergeVars, codecVars, limitVars, simplifyVars, discoverVars, chainVars, edgeVars, seekVars, cloneVars, namesVars, sceneVars>>
outsideDiscover == <<normVars, verVars, mergeVars, codecVars, limitVars, simplifyVars, peakVars, chainVars, edgeVars, seekVars, cloneVars, namesVars, sceneVars>>
outsideChain == <<normVars, verVars, mergeVars, codecVars, limitVars, simplifyVars, peakVars, discoverVars, edgeVars, seekVars, cloneVars, namesVars, sceneVars>>
outsideEdge == <<normVars, verVars, mergeVars, codecVars, limitVars, simplifyVars, peakVars, discoverVars, chainVars, seekVars, cloneVars, namesVars, sceneVars>>
outsideSeek == <<normVars, verVars, mergeVars, codecVars, limitVars, simplifyVars, peakVars, discoverVars, chainVars, edgeVars, cloneVars, namesVars, sceneVars>>
outsideClone == <<normVars, verVars, mergeVars, codecVars, limitVars, simplifyVars, peakVars, discoverVars, chainVars, edgeVars, seekVars, namesVars, sceneVars>>
outsideNames == <<normVars, verVars, mergeVars, codecVars, limitVars, simplifyVars, peakVars, discoverVars, chainVars, edgeVars, seekVars, cloneVars, sceneVars>>
outsideScene == <<normVars, verVars, mergeVars, codecVars, limitVars, simplifyVars, peakVars, discoverVars, chainVars, edgeVars, seekVars, cloneVars, namesVars>>

\* The value of a variable whose component is not in use, and of a result
\* that was not computed yet.
None == "None"

(***************************************************************************)
(* Generic helpers                                                         *)
(***************************************************************************)
Max(a, b) == IF a >= b THEN a ELSE b
Min(a, b) == IF a <= b THEN a ELSE b
Abs(x) == IF x < 0 THEN -x ELSE x

\* All sequences over S of length at most n.
SeqsUpTo(S, n) == UNION {[1..k -> S] : k \in 0..n}

\* The subsequence of s holding the elements at the positions satisfying Keep.
RECURSIVE SelectIdx(_, _, _)
SelectIdx(s, Keep(_), i) ==
    IF i > Len(s) THEN <<>>
    ELSE (IF Keep(i) THEN <<s[i]>> ELSE <<>>) \o SelectIdx(s, Keep, i + 1)

\* Body(x), with x computed once: the value of a bound variable is kept, the
\* definition of a LET and the argument of an operator are computed anew at
\* every use when TLC counts the evaluations.
With(x, Body(_)) == CHOOSE result \in {Body(value) : value \in {x}} : TRUE

(***************************************************************************)
(* Number representation of the normalize model.                           *)
(*                                                                         *)
(* `at`, `pos` and durations are floats in the source.  Here every time is *)
(* an integer count of half-milliseconds and every position an integer     *)
(* count of half-units, so that the .5 values round() has to resolve are   *)
(* representable: at = 3 stands for 1.5 ms, pos = 101 for 50.5, and a      *)
(* duration of 2000 for one second.                                        *)
(***************************************************************************)

\* Python's round(x) on a float that is a multiple of 0.5: ties go to the
\* even integer (round(0.5) = 0, round(1.5) = 2, round(-1.5) = -2).
Round(v) ==
    IF v % 2 = 0 THEN v
    ELSE IF ((v - 1) \div 2) % 2 = 0 THEN v - 1 ELSE v + 1

\* misc.clamp
clamp(value, left, right) == Max(left, Min(right, value))

\* for e in self.actions: e.at = round(e.at) or 0; e.pos = clamp(round(e.pos) or 0, 0, 100)
RoundActions(actions) ==
    [i \in 1..Len(actions) |->
        [at |-> Round(actions[i].at), pos |-> clamp(Round(actions[i].pos), 0, 200)]]

\* list.sort(key=lambda a: a.at): a stable sort (equal keys keep their order).
RECURSIVE InsertByAt(_, _)
InsertByAt(sorted, e) ==
    IF sorted = <<>> THEN <<e>>
    ELSE IF sorted[Len(sorted)].at <= e.at THEN Append(sorted, e)
    ELSE Append(InsertByAt(SubSeq(sorted, 1, Len(sorted) - 1), e), sorted[Len(sorted)])

RECURSIVE SortByAt(_)
SortByAt(actions) ==
    IF actions = <<>> THEN <<>>
    ELSE InsertByAt(SortByAt(SubSeq(actions, 1, Len(actions) - 1)), actions[Len(actions)])

\* A duplicate filter that keeps equal timestamps (<= where the source has <).
DedupSorted_KeepsEqual(sorted) ==
    LET Keep(i) == i = 1 \/ sorted[i - 1].at <= sorted[i].at
    IN  SelectIdx(sorted, Keep, 1)

\* [e for i, e in enumerate(self.actions) if i == 0 or self.actions[i-1].at < e.at]
DedupSorted(sorted) ==
    LET Keep(i) == i = 1 \/ sorted[i - 1].at < sorted[i].at
    IN  SelectIdx(sorted, Keep, 1)

\* The negative-time step with the first negative action kept instead of the last.
SnapLastNegative_First(actions) ==
    LET IsNeg(i) == actions[i].at < 0
        IsNonNeg(i) == actions[i].at >= 0
        negativeActions == SelectIdx(actions, IsNeg, 1)
        kept == SelectIdx(actions, IsNonNeg, 1)
    IN  IF negativeActions = <<>> THEN actions
        ELSE IF kept # <<>> /\ kept[1].at > 0
             THEN <<[negativeActions[1] EXCEPT !.at = 0]>> \o kept
             ELSE kept

\* negativeActions = [e for e in self.actions if e.at < 0]; if any, they are
\* removed, and the last of them is put back at at = 0 when the remaining list
\* is not empty and starts after 0.
SnapLastNegative(actions) ==
    LET IsNeg(i) == actions[i].at < 0
        IsNonNeg(i) == actions[i].at >= 0
        negativeActions == SelectIdx(actions, IsNeg, 1)
        kept == SelectIdx(actions, IsNonNeg, 1)
    IN  IF negativeActions = <<>> THEN actions
        ELSE IF kept # <<>> /\ kept[1].at > 0
             THEN <<[negativeActions[Len(negativeActions)] EXCEPT !.at = 0]>> \o kept
             ELSE kept

\* The action part of normalize(): round and clamp, sort, drop duplicates,
\* treat the negative timestamps.
NormalizeActions(actions) ==
    SnapLastNegative(DedupSorted(SortByAt(RoundActions(actions))))

\* actions[-1].at if actions else 0
LastAt(actions) == IF actions = <<>> THEN 0 ELSE actions[Len(actions)].at

\* max([last at of the primary] + [last at of each channel])
RECURSIVE MaxLastAt(_, _, _)
MaxLastAt(acc, channels, i) ==
    IF i > Len(channels) THEN acc
    ELSE MaxLastAt(Max(acc, LastAt(channels[i].actions)), channels, i + 1)

\* Funscript.actionsDuraction: the latest last-action time over the primary and
\* the channels, / 1000 (seconds; here in half-milliseconds).
actionsDuraction(s) == MaxLastAt(LastAt(s.actions), s.channels, 1)

\* Funscript.actualDuration
actualDuration(s) ==
    IF s.duration = 0 THEN actionsDuraction(s)
    ELSE IF actionsDuraction(s) > s.duration THEN actionsDuraction(s)
    ELSE IF actionsDuraction(s) * 3 < s.duration THEN actionsDuraction(s)
    ELSE s.duration

\* int(x + 0.5) for x >= 0 seconds: whole seconds, halves rounded up.
IntPlusHalf(x) == ((x + 1000) \div 2000) * 2000

\* normalize() of a channel: a FunChannel has no channels of its own.
NormalizeChannel(c) ==
    LET acts == NormalizeActions(c.actions)
        self == [actions |-> acts, duration |-> c.duration, channels |-> <<>>]
    IN  [c EXCEPT !.actions = acts, !.duration = IntPlusHalf(actualDuration(self))]

\* Funscript.normalize
Normalize(s) ==
    LET chans == [i \in 1..Len(s.channels) |-> NormalizeChannel(s.channels[i])]
        acts == NormalizeActions(s.actions)
        self == [s EXCEPT !.actions = acts, !.channels = chans]
        duration == IntPlusHalf(actualDuration(self))
    IN  [self EXCEPT !.duration = duration,
                     !.channels = [i \in 1..Len(chans) |-> [chans[i] EXCEPT !.duration = duration]]]

(***************************************************************************)
(* SpecNorm: a script is constructed and normalize() is called on it, up   *)
(* to MaxCalls times.                                                      *)
(***************************************************************************)
MaxLen == 3         \* most actions of an input script, over primary and channel
MaxCalls == 2       \* most normalize() calls in a run

\* Input timestamps, in half-milliseconds: -2 ms, -1.5 ms, -1 ms, -0.5 ms,
\* 0.5 ms, 300 ms, 1500 ms.
InAts == {-4, -3, -2, -1, 1, 600, 3000}

\* The position of the k-th input action, in half-units: 125 (above the range),
\* -0.5, 50.5 (a tie) and 15. Distinct positions tell the input actions apart.
InPos(k) == CASE k % 4 = 1 -> 250 [] k % 4 = 2 -> -1 [] k % 4 = 3 -> 101 [] OTHER -> 30

\* metadata.duration of the input, in half-milliseconds: absent, 0.8 s, 2 s, 7 s.
InDurations == {0, 1600, 4000, 14000}

InActions(ats) == [i \in 1..Len(ats) |-> [at |-> ats[i], pos |-> InPos(i)]]

\* The timestamps of up to MaxLen input actions.
NormAts == SeqsUpTo(InAts, MaxLen)

\* A script without channels.
SingleInput(ats, d) ==
    [actions |-> InActions(ats), duration |-> d, channels |-> <<>>]

\* A script with the one channel "pitch": the first k timestamps are those of
\* the primary actions and the rest the channel's.
MultiInput(ats, k, d) ==
    [actions |-> InActions(SubSeq(ats, 1, k)), duration |-> d,
     channels |-> <<[channel |-> "pitch",
                     actions |-> InActions(SubSeq(ats, k + 1, Len(ats))),
                     duration |-> 0]>>]

NormIdle ==
    /\ nInput = <<>>
    /\ nScript = <<>>
    /\ nPrev = <<>>
    /\ nCalls = 0

VerIdle == vData = None /\ vResult = None

MergeIdle == mScripts = <<>> /\ mOptions = None /\ mResult = None

CodecIdle ==
    /\ cScript = None /\ cVersions = {} /\ cStage = <<>>
    /\ cJson = <<>> /\ cParsed = <<>> /\ cJson2 = <<>>

LimitIdle == lActions = <<>> /\ lMaxSpeed = 0 /\ lResult = None

SimplifyIdle == sCurve = <<>> /\ sThreshold = 0 /\ sResult = None

PeaksIdle == aActions = <<>> /\ aPeaks = None /\ aAverage = None

DiscoverIdle == dBase = <<>> /\ dFiles = <<>> /\ dListable = FALSE /\ dPlan = None

ChainIdle == tActions = <<>> /\ tPrev = <<>> /\ tLast = None /\ tSteps = 0

EdgeIdle == eActions = <<>> /\ eCall = None /\ eOutcome = None

SeekIdle == bActions = <<>> /\ bCall = None /\ bResult = None

CloneIdle == kSource = None /\ kCall = None /\ kResult = None

NamesIdle == gData = None /\ gNames = None /\ gParsed = None

SceneIdle == sFiles = None /\ sOriginals = None /\ sSettings = None /\ sLog = None

NormInit ==
    /\ \E ats \in NormAts, d \in InDurations :
         \/ nInput = SingleInput(ats, d)
         \/ \E k \in 0..Len(ats) : nInput = MultiInput(ats, k, d)
    /\ nScript = nInput
    /\ nPrev = nInput
    /\ nCalls = 0
    /\ VerIdle /\ MergeIdle /\ CodecIdle /\ LimitIdle /\ SimplifyIdle /\ PeaksIdle /\ DiscoverIdle /\ ChainIdle /\ EdgeIdle /\ SeekIdle /\ CloneIdle /\ NamesIdle /\ SceneIdle

\* script.normalize()
NormalizeCall ==
    /\ nCalls < MaxCalls
    /\ nPrev' = nScript
    /\ nScript' = Normalize(nScript)
    /\ nCalls' = nCalls + 1
    /\ UNCHANGED <<nInput, outsideNorm>>

NormNext == NormalizeCall

SpecNorm == NormInit /\ [][NormNext]_vars

(***************************************************************************)
(* Claims about normalize                                                  *)
(***************************************************************************)
\* The action lists of a script: the primary's and each channel's.
ActionLists(s) == {s.actions} \cup {s.channels[i].actions : i \in 1..Len(s.channels)}

StrictlyAscending(actions) ==
    \A i \in 1..(Len(actions) - 1) : actions[i].at < actions[i + 1].at

PosInRange(actions) ==
    \A i \in 1..Len(actions) : 0 <= actions[i].pos /\ actions[i].pos <= 200

\* C1: after normalize(), the primary's and every channel's actions are strictly
\* increasing in at and every pos lies within 0..100 (0..200 half-units).
C1_NormalizedOrderAndRange ==
    nCalls >= 1 =>
        \A l \in ActionLists(nScript) : StrictlyAscending(l) /\ PosInRange(l)

\* A normalized script with a channel, one of whose input lists held three
\* actions out of order, with a repeated (rounded) at, a negative at and a pos
\* outside 0..100.
C1_Witness ==
    /\ nCalls = 1
    /\ nInput.channels # <<>>
    /\ \E l \in ActionLists(nInput) :
          /\ Len(l) = 3
          /\ \E i \in 1..2 : l[i].at > l[i + 1].at
          /\ \E i, j \in 1..3 : i < j /\ Round(l[i].at) = Round(l[j].at)
          /\ \E i \in 1..3 : l[i].at < 0
          /\ \E i \in 1..3 : l[i].pos > 200

\* C4: normalize is idempotent: a second normalize() changes neither the
\* actions nor metadata.duration of the script and of its channels.
C4_NormalizeIdempotent ==
    nCalls = 2 => nScript = nPrev

\* Whole seconds, rounded up (ceil), of a time in half-milliseconds.
CeilSeconds(x) == ((x + 1999) \div 2000) * 2000

\* C7: after normalize(), metadata.duration of the script and of each channel
\* is ceil(max last at / 1000), whatever duration the metadata held before.
C7_DurationIsCeilOfLastAt ==
    nCalls >= 1 =>
        /\ nScript.duration = CeilSeconds(actionsDuraction(nScript))
        /\ \A i \in 1..Len(nScript.channels) :
              nScript.channels[i].duration = CeilSeconds(actionsDuraction(nScript))

\* The rounded timestamps of an input list.
RoundedAts(input) == {Round(input[i].at) : i \in 1..Len(input)}
NonNegAts(input) == {a \in RoundedAts(input) : a >= 0}
NegAts(input) == {a \in RoundedAts(input) : a < 0}
LastNegAt(input) == CHOOSE a \in NegAts(input) : \A b \in NegAts(input) : b <= a

\* The output starts with one of the input actions of the latest negative time,
\* moved to 0, followed by one action per non-negative input time.
LastNegativeSnapped(input, output) ==
    /\ Len(output) = Cardinality(NonNegAts(input)) + 1
    /\ output[1].at = 0
    /\ \E i \in 1..Len(input) :
          /\ Round(input[i].at) = LastNegAt(input)
          /\ output[1].pos = clamp(Round(input[i].pos), 0, 200)

\* Every negative-time action is gone.
NegativesDropped(input, output) ==
    Len(output) = Cardinality(NonNegAts(input))

NoNegativeAt(output) == \A i \in 1..Len(output) : output[i].at >= 0

\* C8 as stated: no at < 0 after normalize(); the last negative-at action
\* survives at 0 if and only if no input action sits at 0, inputs whose actions
\* are all negative included; every other negative-at action is dropped.
C8_SnapIffNoActionAtZero ==
    nCalls = 1 =>
        /\ NoNegativeAt(nScript.actions)
        /\ NegAts(nInput.actions) # {} =>
              IF 0 \notin RoundedAts(nInput.actions)
              THEN LastNegativeSnapped(nInput.actions, nScript.actions)
              ELSE NegativesDropped(nInput.actions, nScript.actions)

\* C8 (amended): no at < 0 after normalize(); the last negative-at action
\* survives at 0 if and only if the input has an action at a time >= 0 and none
\* at 0; otherwise (an action at 0, or nothing but negative times) every
\* negative-at action is dropped.
C8_SnapIffFirstKeptAfterZero ==
    nCalls = 1 =>
        \A k \in 0..Len(nInput.channels) :
            LET input == IF k = 0 THEN nInput.actions ELSE nInput.channels[k].actions
                output == IF k = 0 THEN nScript.actions ELSE nScript.channels[k].actions
            IN  /\ NoNegativeAt(output)
                /\ NegAts(input) # {} =>
                      IF NonNegAts(input) # {} /\ 0 \notin RoundedAts(input)
                      THEN LastNegativeSnapped(input, output)
                      ELSE NegativesDropped(input, output)

\* A normalized script whose input had two different negative times and a first
\* non-negative time after 0: the later negative action was moved to 0.
C8_Witness ==
    /\ nCalls = 1
    /\ Cardinality(NegAts(nInput.actions)) = 2
    /\ NonNegAts(nInput.actions) # {}
    /\ 0 \notin RoundedAts(nInput.actions)
    /\ Len(nScript.actions) = 2
    /\ nScript.actions[1].at = 0

\* The input actions whose rounded time is t.
IndicesAt(input, t) == {i \in 1..Len(input) : Round(input[i].at) = t}

\* C17: of several input actions that share one time after rounding,
\* normalize() keeps exactly one, and it is the one that came last in the
\* input.  (Stated for times >= 0; the negative times are dropped or moved.)
C17_LastDuplicateWins ==
    nCalls = 1 =>
        \A t \in NonNegAts(nInput.actions) :
            LET group == IndicesAt(nInput.actions, t)
                last == CHOOSE i \in group : \A j \in group : j <= i
                kept == {k \in 1..Len(nScript.actions) : nScript.actions[k].at = t}
            IN  Cardinality(group) >= 2 =>
                    /\ Cardinality(kept) = 1
                    /\ \A k \in kept :
                          nScript.actions[k].pos = clamp(Round(nInput.actions[last].pos), 0, 200)

(***************************************************************************)
(* SpecVer: get_funscript_version (funscript_utils.py) is applied to a     *)
(* parsed JSON object.  Of the object only what the function inspects is   *)
(* kept: for each of the four keys it reads, the shape of the value.       *)
(***************************************************************************)
Absent == "absent"

\* data.get('version'): missing, or one of the strings in use.
VersionValues == {Absent, "1.0", "1.1", "2.0"}

\* data['channels']: missing, null, {}, a non-empty object, a non-empty array.
ChannelsValues == {Absent, "null", "emptyObject", "object", "array"}

\* data['axes']: missing, null, [], a non-empty array, a non-empty object.
AxesValues == {Absent, "null", "emptyArray", "array", "object"}

\* data['metadata']: missing, an object of scalar values, an object one of
\* whose values is an object with an "actions" key, a string.
MetadataValues == {Absent, "plain", "holdsActions", "string"}

VerInputs == [version : VersionValues, channels : ChannelsValues,
              axes : AxesValues, metadata : MetadataValues]

\* `not funscript_data`: the object has no key at all.
IsEmptyObject(data) ==
    /\ data.version = Absent /\ data.channels = Absent
    /\ data.axes = Absent /\ data.metadata = Absent

get_funscript_version_IgnoresVersionField(data) ==
    IF IsEmptyObject(data) THEN "1.0"
    ELSE IF data.channels = "object" THEN "2.0"
    ELSE IF data.axes = "array" THEN "1.1"
    ELSE IF data.metadata = "holdsActions" THEN "1.1"
    ELSE "1.0"

get_funscript_version(data) ==
    IF IsEmptyObject(data) THEN "1.0"
    ELSE IF data.version = "2.0" /\ data.channels = "object" THEN "2.0"
    ELSE IF data.axes = "array" THEN "1.1"
    ELSE IF data.metadata = "holdsActions" THEN "1.1"
    ELSE "1.0"

VerInit ==
    /\ vData \in VerInputs
    /\ vResult = None
    /\ NormIdle /\ MergeIdle /\ CodecIdle /\ LimitIdle /\ SimplifyIdle /\ PeaksIdle /\ DiscoverIdle /\ ChainIdle /\ EdgeIdle /\ SeekIdle /\ CloneIdle /\ NamesIdle /\ SceneIdle

\* version = get_funscript_version(data)
DetectVersion ==
    /\ vResult = None
    /\ vResult' = get_funscript_version(vData)
    /\ UNCHANGED <<vData, outsideVer>>

VerNext == DetectVersion

SpecVer == VerInit /\ [][VerNext]_vars

(***************************************************************************)
(* Claims about get_funscript_version                                      *)
(***************************************************************************)
\* C5 as stated: the detected version is "2.0" when the object has a
\* non-empty channels mapping, else "1.1" when it has a non-empty axes array,
\* else "1.0", whatever the version field and the metadata hold.
C5_VersionFromChannelsAndAxesOnly ==
    vResult # None =>
        vResult = IF vData.channels = "object" THEN "2.0"
                  ELSE IF vData.axes = "array" THEN "1.1"
                  ELSE "1.0"

\* C5 amended: the detected version is "2.0" exactly when the version field
\* is "2.0" and channels is a non-empty mapping; otherwise it is "1.1" exactly
\* when axes is a non-empty array or a metadata value is an object holding
\* actions; otherwise it is "1.0".
C5_VersionFromFieldChannelsAxesMetadata ==
    vResult # None =>
        /\ vResult = "2.0" <=> (vData.version = "2.0" /\ vData.channels = "object")
        /\ vResult = "1.1" <=> /\ ~(vData.version = "2.0" /\ vData.channels = "object")
                               /\ (vData.axes = "array" \/ vData.metadata = "holdsActions")
        /\ vResult \in {"1.0", "1.1", "2.0"}

C5_Witness ==
    /\ vResult = "1.1"
    /\ vData.version = "1.1"
    /\ vData.channels = "object"
    /\ vData.axes = "array"

(***************************************************************************)
(* Funscript.mergeMultiAxis                                                *)
(*                                                                         *)
(* A script is a record: `src` is its position in the input list (its      *)
(* identity), `file` its FunscriptFile or NoFile, `channel` what its       *)
(* constructor stored, `channels` its secondary channels in dict order.    *)
(* A call returns a record whose `type` is "list" with the returned        *)
(* scripts, or the name of the exception it raised.                        *)
(***************************************************************************)
NoFile == [title |-> "[none]", channel |-> ""]

\* Funscript.__init__, `self.channel = ... or ... or ...`: the channel of the
\* JSON when it is truthy, else the file's channel ('' for a file name
\* without an axis suffix), else None.
ChannelOf(jsonChannel, file) ==
    IF jsonChannel # None THEN jsonChannel
    ELSE IF file # NoFile THEN file.channel
    ELSE None

\* `not e.channel`
Falsy(channel) == channel \in {None, ""}

Returned(scripts) == [type |-> "list", detail |-> "", scripts |-> scripts]
Raised(exception, detail) == [type |-> exception, detail |-> detail, scripts |-> <<>>]

\* The group key of a script: directory and title of its file.
GroupKey(script) == IF script.file # NoFile THEN script.file.title ELSE "[unnamed]"

\* The positions of the scripts of s that satisfy Keep, in order.
RECURSIVE Positions(_, _, _)
Positions(s, Keep(_), i) ==
    IF i > Len(s) THEN <<>>
    ELSE (IF Keep(s[i]) THEN <<i>> ELSE <<>>) \o Positions(s, Keep, i + 1)

Filter(s, Keep(_)) ==
    LET idx == Positions(s, Keep, 1) IN [k \in 1..Len(idx) |-> s[idx[k]]]

\* The keys of the `groups` dict, in insertion order.
RECURSIVE GroupKeys(_, _, _)
GroupKeys(singles, seen, i) ==
    IF i > Len(singles) THEN <<>>
    ELSE IF GroupKey(singles[i]) \in seen THEN GroupKeys(singles, seen, i + 1)
    ELSE <<GroupKey(singles[i])>> \o GroupKeys(singles, seen \cup {GroupKey(singles[i])}, i + 1)

\* FunscriptFile.clone: clone(self, self.filePath) hands the path to
\* type(obj)(obj, filePath), and FunscriptFile.__init__ takes one argument.
FunscriptFile_clone(file) == Raised("TypeError", "FunscriptFile.__init__")

\* FunChannel(e, {'parent': self, 'channel': ch}) for a Funscript object e.
NewChannel(e, ch) ==
    IF e.file # NoFile THEN FunscriptFile_clone(e.file)
    ELSE IF Falsy(ch) THEN Raised("ValueError", "channel is not defined")
    ELSE Returned(<<[src |-> e.src, file |-> NoFile, channel |-> ch, channels |-> <<>>]>>)

NoScript == [src |-> 0, file |-> NoFile, channel |-> None, channels |-> <<>>]

\* Funscript(mainScript, {'channels': secondaryScripts, 'isMerging': True});
\* no script that gets this far has a file, so the result has none either.
NewMerged(mainScript, secondaryScripts) ==
    IF mainScript # NoScript /\ mainScript.file # NoFile
    THEN FunscriptFile_clone(mainScript.file)
    ELSE LET made == [k \in 1..Len(secondaryScripts) |->
                        NewChannel(secondaryScripts[k], secondaryScripts[k].channel)]
             failed == {k \in 1..Len(made) : made[k].type # "list"}
         IN  IF failed # {}
             THEN made[CHOOSE k \in failed : \A j \in failed : k <= j]
             ELSE Returned(<<[src |-> mainScript.src, file |-> NoFile,
                              channel |-> None,
                              channels |-> [k \in 1..Len(made) |-> made[k].scripts[1]]]>>)

\* Funscript({**allScripts[0].__dict__, ...}, {'isMerging': True}): the dict
\* carries the script's FunMetadata object under 'metadata', and
\* FunMetadata.__init__ calls .items() on it.
NewFromDict(script) == Raised("AttributeError", "FunMetadata.items")

\* converter.channelNames: the channel names in the order of axisPairs.
channelNames == <<"stroke", "surge", "sway", "twist", "roll", "pitch", "suck">>

\* The names outside channelNames that occur in the model, in lexicographic
\* order (Python's < on str).
OtherNames == <<"bar", "foo">>

\* misc.compareWithOrder(a, b, order)
compareWithOrder(a, b, order) ==
    LET N == Len(order)
        IndexOf(x) == IF \E i \in 1..N : order[i] = x
                      THEN (CHOOSE i \in 1..N : order[i] = x) - 1
                      ELSE IF x = None THEN N + 2 ELSE IF x = "" THEN N + 1 ELSE N
        Rank(x) == IF \E i \in 1..Len(OtherNames) : OtherNames[i] = x
                   THEN CHOOSE i \in 1..Len(OtherNames) : OtherNames[i] = x ELSE 0
    IN  IF IndexOf(a) # IndexOf(b) THEN IndexOf(a) - IndexOf(b)
        ELSE IF IndexOf(a) = N THEN (IF a = b THEN 0 ELSE IF Rank(a) < Rank(b) THEN -1 ELSE 1)
        ELSE 0

\* converter.orderByChannel(a, b)
orderByChannel(a, b) == compareWithOrder(a.channel, b.channel, channelNames)

\* sorted(scriptsGroup, key=lambda e: orderByChannel(e, e)): a stable sort by
\* the key, which compares every script with itself.
RECURSIVE InsertByKey(_, _)
InsertByKey(sorted, e) ==
    IF sorted = <<>> THEN <<e>>
    ELSE IF orderByChannel(sorted[Len(sorted)], sorted[Len(sorted)]) <= orderByChannel(e, e)
         THEN Append(sorted, e)
    ELSE Append(InsertByKey(SubSeq(sorted, 1, Len(sorted) - 1), e), sorted[Len(sorted)])

RECURSIVE SortedByChannelKey(_)
SortedByChannelKey(scriptsGroup) ==
    IF scriptsGroup = <<>> THEN <<>>
    ELSE InsertByKey(SortedByChannelKey(SubSeq(scriptsGroup, 1, Len(scriptsGroup) - 1)),
                     scriptsGroup[Len(scriptsGroup)])

\* One iteration of the loop over the groups.
MergeGroup(allScripts, options) ==
    LET usedChannels == {allScripts[k].channel : k \in 1..Len(allScripts)}
        untagged == Filter(allScripts, LAMBDA e : Falsy(e.channel))
        mainScript == IF untagged = <<>> THEN NoScript ELSE untagged[1]
        secondaryScripts == Filter(allScripts, LAMBDA e : ~Falsy(e.channel))
    IN  IF Cardinality(usedChannels) # Len(allScripts)
        THEN Raised("ValueError", "duplicate")
        ELSE IF Len(allScripts) = 1
        THEN IF Falsy(allScripts[1].channel) THEN Returned(allScripts)
             ELSE IF ~options.combineSingleSecondaryChannel THEN Returned(allScripts)
             ELSE NewFromDict(allScripts[1])
        ELSE IF mainScript = NoScript /\ ~options.allowMissingActions
        THEN Raised("ValueError", "no base script")
        ELSE NewMerged(mainScript, secondaryScripts)

RECURSIVE MergeGroups(_, _, _, _, _)
MergeGroups(singles, keys, options, merged, i) ==
    IF i > Len(keys) THEN Returned(merged)
    ELSE LET group == Filter(singles, LAMBDA e : GroupKey(e) = keys[i])
             one == MergeGroup(SortedByChannelKey(group), options)
         IN  IF one.type # "list" THEN one
             ELSE MergeGroups(singles, keys, options, merged \o one.scripts, i + 1)

mergeMultiAxis(scripts, options) ==
    LET multiScriptChannels == Filter(scripts, LAMBDA e : e.channels # <<>>)
        singleScriptChannels == Filter(scripts, LAMBDA e : e.channels = <<>>)
        keys == GroupKeys(singleScriptChannels, {}, 1)
        merged == MergeGroups(singleScriptChannels, keys, options, <<>>, 1)
    IN  IF merged.type # "list" THEN merged
        ELSE Returned(multiScriptChannels \o merged.scripts)

(***************************************************************************)
(* SpecMerge: mergeMultiAxis is called once on a list of scripts.          *)
(***************************************************************************)
MaxScripts == 3     \* most scripts in the input list

MergeTitles == {"a", "b"}
MergeAxes == {"pitch", "roll"}

\* The scripts that can stand in the input: loaded from the file
\* <title>.funscript or <title>.<axis>.funscript, built from JSON without a
\* file (with or without a "channel"), or already multi-axis.
ScriptShapes ==
    LET files == [title : MergeTitles, channel : MergeAxes \cup {""}]
    IN  {[file |-> f, channel |-> None, multi |-> FALSE] : f \in files}
        \cup {[file |-> NoFile, channel |-> c, multi |-> FALSE] : c \in MergeAxes \cup {None}}
        \cup {[file |-> f, channel |-> None, multi |-> TRUE] :
                f \in {NoFile, [title |-> "a", channel |-> ""]}}

\* The script of the given shape at position i of the input.
ScriptAt(i, shape) ==
    LET pitch == [src |-> i, file |-> NoFile, channel |-> "pitch", channels |-> <<>>]
    IN  [src |-> i, file |-> shape.file, channel |-> ChannelOf(shape.channel, shape.file),
         channels |-> IF shape.multi THEN <<pitch>> ELSE <<>>]

MergeOptions == [allowMissingActions : BOOLEAN, combineSingleSecondaryChannel : BOOLEAN]

NotCalled == [type |-> "None", detail |-> "", scripts |-> <<>>]

MergeInit ==
    /\ \E n \in 0..MaxScripts :
         \E pick \in [1..n -> ScriptShapes] :
            mScripts = [i \in 1..n |-> ScriptAt(i, pick[i])]
    /\ mOptions \in MergeOptions
    /\ mResult = NotCalled
    /\ NormIdle /\ VerIdle /\ CodecIdle /\ LimitIdle /\ SimplifyIdle /\ PeaksIdle /\ DiscoverIdle /\ ChainIdle /\ EdgeIdle /\ SeekIdle /\ CloneIdle /\ NamesIdle /\ SceneIdle

\* Funscript.mergeMultiAxis(scripts, options)
MergeCall ==
    /\ mResult = NotCalled
    /\ mResult' = mergeMultiAxis(mScripts, mOptions)
    /\ UNCHANGED <<mScripts, mOptions, outsideMerge>>

MergeNext == MergeCall

SpecMerge == MergeInit /\ [][MergeNext]_vars

(***************************************************************************)
(* Claims about mergeMultiAxis                                             *)
(***************************************************************************)
\* The single-axis inputs, the (dir,title) groups they fall into, and the
\* members of a group that carry a channel tag.
SingleInputs == {i \in 1..Len(mScripts) : mScripts[i].channels = <<>>}
InputGroups == {{i \in SingleInputs : GroupKey(mScripts[i]) = GroupKey(mScripts[j])} : j \in SingleInputs}
Tagged(group) == {i \in group : ~Falsy(mScripts[i].channel)}

HasDuplicateChannel(group) ==
    \E i, j \in group :
        /\ i # j
        /\ \/ mScripts[i].channel = mScripts[j].channel
           \/ Falsy(mScripts[i].channel) /\ Falsy(mScripts[j].channel)

LacksPrimary(group) ==
    /\ Cardinality(group) >= 2
    /\ Tagged(group) = group
    /\ ~mOptions.allowMissingActions

\* The input scripts an output script was made of.
SourcesOf(script) ==
    ({script.src} \ {0}) \cup {script.channels[k].src : k \in 1..Len(script.channels)}

\* The output script is the merge of the group: its channels are the tagged
\* members, under their tags.
IsMergeOf(script, group) ==
    /\ script.src \in (group \ Tagged(group)) \cup {0}
    /\ {script.channels[k].src : k \in 1..Len(script.channels)} = Tagged(group)
    /\ \A k \in 1..Len(script.channels) :
            script.channels[k].channel = mScripts[script.channels[k].src].channel

\* C6: mergeMultiAxis raises when a group holds two scripts of the same
\* channel, and when a group of two or more scripts lacks an untagged primary
\* while allowMissingActions is off; in every other case it returns, and each
\* group yields exactly one script whose secondary channels are the tagged
\* inputs of the group (a group of one script may also yield that script
\* as it is).
C6_MergeErrorsAndGrouping ==
    mResult # NotCalled =>
        IF \E g \in InputGroups : HasDuplicateChannel(g) \/ LacksPrimary(g)
        THEN mResult.type # "list"
        ELSE /\ mResult.type = "list"
             /\ \A g \in InputGroups :
                    LET of == {n \in 1..Len(mResult.scripts) :
                                    SourcesOf(mResult.scripts[n]) \cap g # {}}
                    IN  /\ Cardinality(of) = 1
                        /\ \A n \in of :
                              \/ IsMergeOf(mResult.scripts[n], g)
                              \/ g = {mResult.scripts[n].src} /\ mResult.scripts[n] = mScripts[mResult.scripts[n].src]

\* The channels of a script follow the order of channelNames, names outside
\* it after them in lexicographic order.
InChannelOrder(channels) ==
    \A i, j \in 1..Len(channels) :
        i < j => compareWithOrder(channels[i].channel, channels[j].channel, channelNames) <= 0

\* C18: the channels of a script produced by mergeMultiAxis are ordered by the
\* fixed axis sequence stroke, surge, sway, twist, roll, pitch, suck (other
\* names after them, lexicographically), whatever the order of the input
\* scripts.
C18_MergedChannelsInAxisOrder ==
    mResult.type = "list" =>
        \A n \in 1..Len(mResult.scripts) : InChannelOrder(mResult.scripts[n].channels)

(***************************************************************************)
(* Funscript.toJSON and the Funscript constructor (the codec)              *)
(*                                                                         *)
(* Number representation: every time (at, durations) is an integer count   *)
(* of twentieths of a millisecond and every position a count of twentieths *)
(* of a unit, so that quarters (x.25, x.75: exact as floats) and the       *)
(* tenths round(x, 1) turns them into are both representable.              *)
(*                                                                         *)
(* A script object is a record [channel, actions, channels, metadata];     *)
(* `channels` lists the channel objects in dict order.  A JSON object is a *)
(* record with one field per key the serializer can emit; a key that is    *)
(* not emitted holds Absent (strings), kind "absent" (containers), or ""   *)
(* (the metadata title, which is trimmed when empty).                      *)
(***************************************************************************)
PerMs == 20         \* twentieths of a millisecond in one millisecond

\* round(x, 1) of a multiple of 1/20: a tenth stays, a tie goes to the even tenth.
Round1(x) ==
    LET q == x \div 2
    IN  IF x % 2 = 0 THEN x ELSE IF q % 2 = 0 THEN 2 * q ELSE 2 * (q + 1)

\* round(seconds, 3): to the nearest millisecond, a tie to the even one.
Round3(d) ==
    LET q == d \div PerMs
        r == d % PerMs
    IN  IF 2 * r < PerMs THEN PerMs * q
        ELSE IF 2 * r > PerMs THEN PerMs * (q + 1)
        ELSE IF q % 2 = 0 THEN PerMs * q ELSE PerMs * (q + 1)

\* msToTimeSpan: sign, hours, minutes, seconds and whole milliseconds of the
\* text "hh:mm:ss.mmm"; int() cuts the fraction of a millisecond off.
msToTimeSpan(d) ==
    LET ms == Abs(d) \div PerMs
    IN  <<IF d < 0 THEN -1 ELSE 1,
          ms \div 3600000, (ms \div 60000) % 60, (ms \div 1000) % 60, ms % 1000>>

\* channelNameToAxisMap and axisToNameMap, from axisPairs.
AxisPairs ==
    {<<"L0", "stroke">>, <<"L1", "surge">>, <<"L2", "sway">>, <<"R0", "twist">>,
     <<"R1", "roll">>, <<"R2", "pitch">>, <<"A1", "suck">>}

\* channelNameToAxis(name, fallback)
channelNameToAxis(name, fallback) ==
    IF \E pair \in AxisPairs : pair[2] = name
    THEN (CHOOSE pair \in AxisPairs : pair[2] = name)[1]
    ELSE fallback

\* axisToChannelName(axis) for a string; Absent stands for the ValueError.
axisToChannelName(axis) ==
    IF \E pair \in AxisPairs : pair[1] = axis
    THEN (CHOOSE pair \in AxisPairs : pair[1] = axis)[2]
    ELSE Absent

NoMetadataJson == [kind |-> "absent", title |-> "", duration |-> 0, durationTime |-> <<>>]
NoMembers == [kind |-> "absent", items |-> <<>>]
NullMembers == [kind |-> "null", items |-> <<>>]

\* FunAction.toJSON of each action
ActionsToJSON(actions) ==
    [i \in 1..Len(actions) |-> [at |-> Round1(actions[i].at), pos |-> Round1(actions[i].pos)]]

\* Funscript.duration: the metadata's duration when it is truthy, else the
\* latest last action of the script and its channels.
duration(self) ==
    IF self.metadata.duration # 0 THEN self.metadata.duration
    ELSE MaxLastAt(LastAt(self.actions), self.channels, 1)

\* The "metadata" entry of Funscript.toJSON: FunMetadata.toJSON with duration
\* and durationTime replaced by those of the script.
MetadataToJSON(self) ==
    [kind |-> "object", title |-> self.metadata.title,
     duration |-> Round3(duration(self)), durationTime |-> msToTimeSpan(duration(self))]

\* FunChannel.toJSON with options version v, root False.  The metadata is
\* deleted when each of its keys other than the two durations equals the
\* parent's; an empty title is no key.
ChannelToJSON(channel, parent, v) ==
    [key |-> IF v = "2.0" THEN channel.channel ELSE "",
     id |-> IF v = "1.1" THEN channelNameToAxis(channel.channel, channel.channel) ELSE Absent,
     metadata |-> IF channel.metadata.title = "" \/ channel.metadata.title = parent.metadata.title
                  THEN NoMetadataJson ELSE MetadataToJSON(channel),
     actions |-> ActionsToJSON(channel.actions)]

\* Funscript.toJSON({'version': v}) of a script without parent, after
\* orderTrimJson: "version" is trimmed when it is the default '1.0',
\* "channel" when None, "axes" when None, "channels" when {} but not when None.
toJSON(self, v) ==
    LET members == [k \in 1..Len(self.channels) |-> ChannelToJSON(self.channels[k], self, v)]
    IN  [version |-> IF v = "1.0" THEN Absent ELSE v,
         channel |-> IF v = "1.0" /\ ~Falsy(self.channel) THEN self.channel ELSE Absent,
         axes |-> IF v = "1.1" THEN [kind |-> "array", items |-> members] ELSE NoMembers,
         channels |-> IF v # "2.0" THEN NullMembers
                      ELSE IF members = <<>> THEN NoMembers
                      ELSE [kind |-> "object", items |-> members],
         metadata |-> MetadataToJSON(self),
         actions |-> ActionsToJSON(self.actions)]

OneHour == 3600     \* seconds; FunMetadata takes a longer duration for milliseconds

DefaultMetadata == [title |-> "", duration |-> 0]

\* FunMetadata(metadata, parent): a duration above one hour is divided by
\* 1000 when the parent has actions and they end before 500 times that
\* duration.  actionsDuration < 500 * duration is evaluated as
\* actionsDuration \div 500 < duration, the same on integers and within the
\* integer range.
NewMetadata(metadata, actionsDuration) ==
    IF metadata.kind # "object" THEN DefaultMetadata
    ELSE [title |-> metadata.title,
          duration |-> IF /\ metadata.duration > OneHour * 1000 * PerMs
                          /\ actionsDuration # 0
                          /\ actionsDuration \div 500 < metadata.duration
                       THEN metadata.duration \div 1000
                       ELSE metadata.duration]

\* FunChannel(e, {'parent': self, 'channel': ch}) for a JSON object e.
ParseChannel(e, ch) ==
    [channel |-> ch, actions |-> e.actions, channels |-> <<>>,
     metadata |-> NewMetadata(e.metadata, LastAt(e.actions))]

\* The dict key of a member of channelsOrAxes: the key of "channels", or the
\* channel name of the "id" of an "axes" entry.
ChannelKey(e) == IF e.id = Absent THEN e.key ELSE axisToChannelName(e.id)

\* channelsDict[channelKey] = e over the entries: a key met again keeps its
\* place and takes the later entry.
RECURSIVE EntriesByKey(_, _, _)
EntriesByKey(items, dict, i) ==
    IF i > Len(items) THEN dict
    ELSE LET key == ChannelKey(items[i])
             met == {k \in 1..Len(dict) : ChannelKey(dict[k]) = key}
         IN  IF met = {} THEN EntriesByKey(items, Append(dict, items[i]), i + 1)
             ELSE EntriesByKey(items, [dict EXCEPT ![CHOOSE k \in met : TRUE] = items[i]], i + 1)

Parsed(script) == [error |-> "", script |-> script]
NoParse == [channel |-> None, actions |-> <<>>, channels |-> <<>>, metadata |-> DefaultMetadata]
ParseFailed(error) == [error |-> error, script |-> NoParse]

\* Funscript(json): the metadata is built before the channels are attached,
\* so its parent has the primary actions only; channelsOrAxes is "channels"
\* when truthy, else "axes".
Parse(json) ==
    LET items == IF json.channels.items # <<>> THEN json.channels.items ELSE json.axes.items
        entries == EntriesByKey(items, <<>>, 1)
    IN  IF \E k \in 1..Len(items) : ChannelKey(items[k]) = Absent
        THEN ParseFailed("ValueError")
        ELSE Parsed([channel |-> IF json.channel = Absent THEN None ELSE json.channel,
                     actions |-> json.actions,
                     channels |-> [k \in 1..Len(entries) |->
                                      ParseChannel(entries[k], ChannelKey(entries[k]))],
                     metadata |-> NewMetadata(json.metadata, LastAt(json.actions))])

(***************************************************************************)
(* SpecCodec: a script is constructed from a JSON object; for each version *)
(* of the run it is serialized, the result is parsed, and the parsed       *)
(* script is serialized again.  A run works on one version, or on 1.1 and  *)
(* 2.0 side by side.                                                       *)
(***************************************************************************)
MaxActions == 2     \* most primary actions of the constructed script
MaxChannels == 2    \* most channels of the constructed script

Versions == {"1.0", "1.1", "2.0"}

\* Timestamps of the primary actions: 0.25 ms, 300 ms, 1234.75 ms, 4000 s.
CodecAts == {5, 300 * PerMs, 24695, 4000000 * PerMs}

\* The position of the k-th action: 50.25, 100, 0.75.
CodecPos(k) == CASE k % 3 = 1 -> 1005 [] k % 3 = 2 -> 100 * PerMs [] OTHER -> 15

CodecActions(ats) == [i \in 1..Len(ats) |-> [at |-> ats[i], pos |-> CodecPos(i)]]

\* The "metadata" of the input: none, or a title and a duration of 0, 0.8 ms,
\* 5 s or 4000 s.
CodecMetadata ==
    {NoMetadataJson}
    \cup {[kind |-> "object", title |-> t, duration |-> d, durationTime |-> <<>>] :
            t \in {"t"}, d \in {0, 16, 5000 * PerMs, 4000000 * PerMs}}

\* The channels of the input: canonical names, an axis id used as a name, and
\* a name outside the axis table.  Each name comes with its own actions.
CodecChannelNames == {"pitch", "surge", "L1", "foo"}

CodecChannelActions(name) ==
    CASE name = "pitch" -> CodecActions(<<0, 700 * PerMs>>)
      [] name = "surge" -> CodecActions(<<15>>)
      [] name = "L1" -> CodecActions(<<4000000 * PerMs>>)
      [] OTHER -> <<>>

CodecChannelMetadata ==
    {NoMetadataJson,
     [kind |-> "object", title |-> "u", duration |-> 4000000 * PerMs, durationTime |-> <<>>]}

CodecMember(name, metadata) ==
    [key |-> name, id |-> Absent, metadata |-> metadata, actions |-> CodecChannelActions(name)]

CodecMembers ==
    UNION {{m \in [1..n -> {CodecMember(name, md) : name \in CodecChannelNames, md \in CodecChannelMetadata}] :
                \A i, j \in 1..n : i # j => m[i].key # m[j].key} : n \in 0..MaxChannels}

\* The JSON object a script is constructed from.
CodecInput(m, md, ats) ==
    [version |-> Absent, channel |-> Absent, axes |-> NoMembers,
     channels |-> IF m = <<>> THEN NoMembers ELSE [kind |-> "object", items |-> m],
     metadata |-> md, actions |-> CodecActions(ats)]

NoJson ==
    [version |-> Absent, channel |-> Absent, axes |-> NoMembers, channels |-> NoMembers,
     metadata |-> NoMetadataJson, actions |-> <<>>]

CodecInit ==
    /\ \E m \in CodecMembers, md \in CodecMetadata, ats \in SeqsUpTo(CodecAts, MaxActions) :
         cScript = Parse(CodecInput(m, md, ats)).script
    /\ cVersions \in {{v} : v \in Versions} \cup {{"1.1", "2.0"}}
    /\ cStage = [v \in Versions |-> 0]
    /\ cJson = [v \in Versions |-> NoJson]
    /\ cParsed = [v \in Versions |-> Parsed(NoParse)]
    /\ cJson2 = [v \in Versions |-> NoJson]
    /\ NormIdle /\ VerIdle /\ MergeIdle /\ LimitIdle /\ SimplifyIdle /\ PeaksIdle /\ DiscoverIdle /\ ChainIdle /\ EdgeIdle /\ SeekIdle /\ CloneIdle /\ NamesIdle /\ SceneIdle

\* json = script.toJSON({'version': v})
Serialize(v) ==
    /\ v \in cVersions
    /\ cStage[v] = 0
    /\ cJson' = [cJson EXCEPT ![v] = toJSON(cScript, v)]
    /\ cStage' = [cStage EXCEPT ![v] = 1]
    /\ UNCHANGED <<cScript, cVersions, cParsed, cJson2, outsideCodec>>

\* parsed = Funscript(json)
Reparse(v) ==
    /\ v \in cVersions
    /\ cStage[v] = 1
    /\ cParsed' = [cParsed EXCEPT ![v] = Parse(cJson[v])]
    /\ cStage' = [cStage EXCEPT ![v] = 2]
    /\ UNCHANGED <<cScript, cVersions, cJson, cJson2, outsideCodec>>

\* json2 = parsed.toJSON({'version': v})
Reserialize(v) ==
    /\ v \in cVersions
    /\ cStage[v] = 2
    /\ cParsed[v].error = ""
    /\ cJson2' = [cJson2 EXCEPT ![v] = toJSON(cParsed[v].script, v)]
    /\ cStage' = [cStage EXCEPT ![v] = 3]
    /\ UNCHANGED <<cScript, cVersions, cJson, cParsed, outsideCodec>>

CodecNext == \E v \in Versions : Serialize(v) \/ Reparse(v) \/ Reserialize(v)

SpecCodec == CodecInit /\ [][CodecNext]_vars

(***************************************************************************)
(* Claims about the codec                                                  *)
(***************************************************************************)
\* C2: serialization is idempotent: once a version's round trip is complete,
\* the second serialization equals the first, metadata.duration and
\* durationTime included.
C2_SerializationIdempotent ==
    \A v \in Versions : cStage[v] = 3 => cJson2[v] = cJson[v]

\* axisLikes: the seven axis ids and the seven channel names.
AxisLikes == {pair[1] : pair \in AxisPairs} \cup {pair[2] : pair \in AxisPairs}

ChannelNamesOf(script) == {script.channels[k].channel : k \in 1..Len(script.channels)}

ActionsOfChannel(script, name) ==
    {script.channels[k].actions : k \in {j \in 1..Len(script.channels) : script.channels[j].channel = name}}

\* C3: for a multi-axis script whose channels are named by axis identifiers,
\* parsing the 1.1 serialization and parsing the 2.0 serialization succeed
\* and give the same primary actions, the same set of channel names and the
\* same actions for each channel.
C3_CrossVersionParseAgrees ==
    (/\ cStage["1.1"] >= 2 /\ cStage["2.0"] >= 2
     /\ cScript.channels # <<>>
     /\ ChannelNamesOf(cScript) \subseteq AxisLikes)
    => /\ cParsed["1.1"].error = "" /\ cParsed["2.0"].error = ""
       /\ cParsed["1.1"].script.actions = cParsed["2.0"].script.actions
       /\ ChannelNamesOf(cParsed["1.1"].script) = ChannelNamesOf(cParsed["2.0"].script)
       /\ \A name \in ChannelNamesOf(cParsed["2.0"].script) :
            ActionsOfChannel(cParsed["1.1"].script, name) = ActionsOfChannel(cParsed["2.0"].script, name)

(***************************************************************************)
(* Curve manipulations (manipulations.py)                                  *)
(*                                                                         *)
(* A speed is kept as the pair <<numerator, denominator>> of               *)
(* (b.pos - a.pos) / (b.at - a.at) with a positive denominator; speeds are *)
(* compared by cross-multiplication.                                       *)
(***************************************************************************)
Sign(x) == IF x > 0 THEN 1 ELSE IF x < 0 THEN -1 ELSE 0

\* speedBetween(a, b): 0 when both stand at the same time.
speedBetween(a, b) ==
    IF a.at = b.at THEN <<0, 1>>
    ELSE IF b.at > a.at THEN <<b.pos - a.pos, b.at - a.at>>
    ELSE <<a.pos - b.pos, a.at - b.at>>

SpeedLess(u, v) == u[1] * v[2] < v[1] * u[2]

\* isPeak(actions, index): 1 for a peak, -1 for a valley, 0 for neither.  The
\* first action always counts as a peak and the last as a valley.
isPeak(actions, index) ==
    IF index = 1 THEN 1
    ELSE IF index = Len(actions) THEN -1
    ELSE LET speedTo == speedBetween(actions[index - 1], actions[index])
             speedFrom == speedBetween(actions[index], actions[index + 1])
         IN  IF Sign(speedTo[1]) = Sign(speedFrom[1]) THEN 0
             ELSE IF SpeedLess(speedFrom, speedTo) THEN 1
             ELSE IF SpeedLess(speedTo, speedFrom) THEN -1
             ELSE 0

\* The indices of the peaks and valleys of actions, ascending.
PeakIndices(actions) == SelectIdx([i \in 1..Len(actions) |-> i], LAMBDA i : isPeak(actions, i) # 0, 1)

\* actionsToZigzag
actionsToZigzag(actions) ==
    LET idx == PeakIndices(actions) IN [k \in 1..Len(idx) |-> actions[idx[k]]]

\* splitToSegments: the index ranges <<from, to>> between consecutive peaks.
splitToSegments_AfterThePeak(actions) ==
    LET idx == PeakIndices(actions) IN [k \in 1..(Len(idx) - 1) |-> <<idx[k] + 1, idx[k + 1]>>]

splitToSegments(actions) ==
    LET idx == PeakIndices(actions) IN [k \in 1..(Len(idx) - 1) |-> <<idx[k], idx[k + 1]>>]

(***************************************************************************)
(* limitPeakSpeed                                                          *)
(*                                                                         *)
(* Positions are integer counts of 1/PosScale of a unit.  A pass halves    *)
(* the excess of a pair once, so with PosScale = 2^Passes and inputs on    *)
(* whole units every position the ten passes produce is exact.  Times are  *)
(* milliseconds and maxSpeed is in units per second.                       *)
(***************************************************************************)
Passes == 10        \* `for iteration in range(10)`
PosScale == 2 ^ Passes

\* abs(speedBetween(left, right)) > maxSpeed
TooFast(left, right, maxSpeed) ==
    LET speed == speedBetween(left, right)
    IN  Abs(speed[1]) * 1000 > maxSpeed * PosScale * speed[2]

\* totalChange = height * (absSpeed - maxSpeed) / absSpeed, which is the
\* height less the height maxSpeed allows over the pair's time.
TotalChange(left, right, maxSpeed) ==
    LET height == right.pos - left.pos
    IN  height - Sign(height) * ((maxSpeed * PosScale * (right.at - left.at)) \div 1000)

\* math.copysign(1, x) of a change; the zero of an untouched entry is +0.0.
CopySign(x) == IF x >= 0 THEN 1 ELSE -1

\* The merge of the left and right change of one peak.
MergeChanges(lchange, rchange) ==
    IF CopySign(lchange) = CopySign(rchange)
    THEN IF Abs(lchange) > Abs(rchange) THEN lchange ELSE rchange
    ELSE lchange + rchange

\* One iteration of the loop: the positions of all peaks after the changes.
LimitPass(peaks, maxSpeed) ==
    LET n == Len(peaks)
        lchange(i) == IF i < n /\ TooFast(peaks[i], peaks[i + 1], maxSpeed)
                      THEN TotalChange(peaks[i], peaks[i + 1], maxSpeed) \div 2 ELSE 0
        rchange(i) == IF i > 1 /\ TooFast(peaks[i - 1], peaks[i], maxSpeed)
                      THEN 0 - (TotalChange(peaks[i - 1], peaks[i], maxSpeed) \div 2) ELSE 0
    IN  [i \in 1..n |-> [peaks[i] EXCEPT !.pos = peaks[i].pos + MergeChanges(lchange(i), rchange(i))]]

\* `speed > maxSpeed` for the fastest adjacent pair.
SomePairTooFast_FirstPairOnly(peaks, maxSpeed) ==
    Len(peaks) >= 2 /\ TooFast(peaks[1], peaks[2], maxSpeed)

SomePairTooFast(peaks, maxSpeed) ==
    \E i \in 1..(Len(peaks) - 1) : TooFast(peaks[i], peaks[i + 1], maxSpeed)

\* The loop: a pass, then another while some pair is too fast, ten at most.
RECURSIVE LimitLoop(_, _, _)
LimitLoop(peaks, maxSpeed, iteration) ==
    With(LimitPass(peaks, maxSpeed), LAMBDA after :
        IF iteration + 1 < Passes /\ SomePairTooFast(after, maxSpeed)
        THEN LimitLoop(after, maxSpeed, iteration + 1)
        ELSE [peaks |-> after, passes |-> iteration + 1])

\* lerp(left, right, unlerp(leftAt, rightAt, at)), cut to 1/PosScale.
LerpAt(left, right, leftAt, rightAt, at) ==
    IF leftAt = rightAt THEN (left + right) \div 2
    ELSE left + ((right - left) * (at - leftAt)) \div (rightAt - leftAt)

\* The closing loop over the segments and connectSegments: each action gets
\* the position of the line between the new positions of the peaks around it.
Relerp_PeaksOnly(actions, peaks) == peaks

Relerp(actions, peaks) ==
    With(splitToSegments(actions), LAMBDA segments :
        LET segmentOf(j) == CHOOSE k \in 1..Len(segments) :
                                /\ segments[k][1] <= j /\ j <= segments[k][2]
                                /\ \A m \in 1..Len(segments) :
                                      (segments[m][1] <= j /\ j <= segments[m][2]) => m <= k
            newPos(j) == With(segmentOf(j), LAMBDA k :
                             LerpAt(peaks[k].pos, peaks[k + 1].pos,
                                    actions[segments[k][1]].at, actions[segments[k][2]].at,
                                    actions[j].at))
        IN  IF segments = <<>> THEN <<>>
            ELSE [j \in 1..Len(actions) |-> [actions[j] EXCEPT !.pos = newPos(j)]])

NoLimitResult == [type |-> "None", peaks |-> <<>>, passes |-> 0, actions |-> <<>>]

\* limitPeakSpeed(actions, maxSpeed).  Of an empty list max() has nothing to
\* take the maximum of.
limitPeakSpeed(actions, maxSpeed) ==
    IF actions = <<>>
    THEN [type |-> "ValueError", peaks |-> <<>>, passes |-> 1, actions |-> <<>>]
    ELSE With(LimitLoop(actionsToZigzag(actions), maxSpeed, 0), LAMBDA loop :
             With(loop.peaks, LAMBDA peaks :
                 [type |-> "list", peaks |-> peaks, passes |-> loop.passes,
                  actions |-> Relerp(actions, peaks)]))

(***************************************************************************)
(* SpecLimit: limitPeakSpeed is called once on an action list.             *)
(***************************************************************************)
MaxPoints == 3      \* most actions of the input list

\* Times of the input actions: every 10 ms.
LimitAts == {10 * k : k \in 0..(MaxPoints - 1)}

\* Positions of the input actions: 0, 5, 95 and 100.
LimitPoss == {0, 5 * PosScale, 95 * PosScale, 100 * PosScale}

\* maxSpeed, in units per second.
LimitSpeeds == {100, 500}

\* The elements of a set of numbers in ascending order.
RECURSIVE Ascending(_)
Ascending(S) ==
    IF S = {} THEN <<>>
    ELSE LET least == CHOOSE x \in S : \A y \in S : x <= y
         IN  <<least>> \o Ascending(S \ {least})

\* The actions at the times T, in ascending order, with the positions p.
ActionsAt(T, p) == [i \in 1..Cardinality(T) |-> [at |-> Ascending(T)[i], pos |-> p[i]]]

LimitInit ==
    /\ \E T \in SUBSET LimitAts :
         \E p \in [1..Cardinality(T) -> LimitPoss] : lActions = ActionsAt(T, p)
    /\ lMaxSpeed \in LimitSpeeds
    /\ lResult = NoLimitResult
    /\ NormIdle /\ VerIdle /\ MergeIdle /\ CodecIdle /\ SimplifyIdle /\ PeaksIdle /\ DiscoverIdle /\ ChainIdle /\ EdgeIdle /\ SeekIdle /\ CloneIdle /\ NamesIdle /\ SceneIdle

\* limitPeakSpeed(actions, maxSpeed)
LimitCall ==
    /\ lResult = NoLimitResult
    /\ lResult' = limitPeakSpeed(lActions, lMaxSpeed)
    /\ UNCHANGED <<lActions, lMaxSpeed, outsideLimit>>

LimitNext == LimitCall

SpecLimit == LimitInit /\ [][LimitNext]_vars

(***************************************************************************)
(* Claims about limitPeakSpeed                                             *)
(***************************************************************************)
\* Every pair of adjacent peaks is within maxSpeed.
PairsWithinMax(peaks, maxSpeed) ==
    \A i \in 1..(Len(peaks) - 1) :
        Abs(peaks[i + 1].pos - peaks[i].pos) * 1000
            <= maxSpeed * PosScale * (peaks[i + 1].at - peaks[i].at)

\* C9 as stated: in the result of limitPeakSpeed no pair of adjacent peaks is
\* faster than maxSpeed: the ten passes always suffice.
C9_PeakSpeedWithinMax ==
    lResult.type = "list" => PairsWithinMax(lResult.peaks, lMaxSpeed)

\* C9 amended: no pair of adjacent peaks is faster than maxSpeed whenever the
\* loop ended before its tenth pass.
C9_PeakSpeedWithinMaxUnlessTenPasses ==
    (lResult.type = "list" /\ lResult.passes < Passes)
        => PairsWithinMax(lResult.peaks, lMaxSpeed)

C9_Witness ==
    /\ lResult.type = "list"
    /\ lResult.passes < Passes
    /\ Len(lResult.peaks) = 3
    /\ ~PairsWithinMax(actionsToZigzag(lActions), lMaxSpeed)
    /\ PairsWithinMax(lResult.peaks, lMaxSpeed)

\* The adjustment the pair to the right of peak i (lchanges[i]) and the pair
\* to its left (rchanges[i]) ask of it in one pass.
LeftAdjustment(peaks, i, maxSpeed) ==
    IF i < Len(peaks) /\ TooFast(peaks[i], peaks[i + 1], maxSpeed)
    THEN TotalChange(peaks[i], peaks[i + 1], maxSpeed) \div 2 ELSE 0

RightAdjustment(peaks, i, maxSpeed) ==
    IF i > 1 /\ TooFast(peaks[i - 1], peaks[i], maxSpeed)
    THEN 0 - (TotalChange(peaks[i - 1], peaks[i], maxSpeed) \div 2) ELSE 0

\* C19: in a pass of limitPeakSpeed a peak that receives a left and a right
\* adjustment of opposite sign is moved by the one of greater magnitude, and a
\* peak that receives two adjustments of the same sign is moved by their sum.
\* (Checked on the calls that end after one pass, where the result shows the
\* peaks as that pass left them.)
C19_OppositeGreaterSameSum ==
    (lResult.type = "list" /\ lResult.passes = 1) =>
        LET before == actionsToZigzag(lActions)
        IN  \A i \in 1..Len(before) :
                LET l == LeftAdjustment(before, i, lMaxSpeed)
                    r == RightAdjustment(before, i, lMaxSpeed)
                    moved == lResult.peaks[i].pos - before[i].pos
                IN  (l # 0 /\ r # 0) =>
                        IF Sign(l) # Sign(r)
                        THEN moved = (IF Abs(l) > Abs(r) THEN l ELSE r)
                        ELSE moved = l + r

\* The least and the greatest position of a list of actions.
MinPos(actions) == CHOOSE p \in {actions[i].pos : i \in 1..Len(actions)} :
                       \A i \in 1..Len(actions) : p <= actions[i].pos
MaxPos(actions) == CHOOSE p \in {actions[i].pos : i \in 1..Len(actions)} :
                       \A i \in 1..Len(actions) : p >= actions[i].pos

\* C30: limitPeakSpeed leaves every at as it was, returns as many actions as
\* it was given when they are two and more, and every position it returns
\* lies between the least and the greatest position of the input.
C30_LimitKeepsTimesCountAndRange ==
    (lResult # NoLimitResult /\ Len(lActions) >= 2) =>
        /\ lResult.type = "list"
        /\ Len(lResult.actions) = Len(lActions)
        /\ \A i \in 1..Len(lActions) :
              /\ lResult.actions[i].at = lActions[i].at
              /\ MinPos(lActions) <= lResult.actions[i].pos
              /\ lResult.actions[i].pos <= MaxPos(lActions)

\* A call on three actions that took several passes and moved the middle
\* action, which is not at an end of the range.
C30_Witness ==
    /\ lResult # NoLimitResult /\ Len(lActions) = 3
    /\ lResult.passes >= 2
    /\ lResult.actions[2].pos # lActions[2].pos
    /\ lResult.actions[1].pos # lActions[1].pos

(***************************************************************************)
(* simplifyLinearCurve                                                     *)
(*                                                                         *)
(* Times and positions are integers.  A deviation is kept as the pair      *)
(* <<numerator, denominator>> over the time between the two endpoints.     *)
(***************************************************************************)
\* lineDeviation of the stretch actions[from..to]: the largest distance of an
\* interior point from the line between the endpoints.
lineDeviation(actions, from, to) ==
    LET first == actions[from]
        last == actions[to]
        span == last.at - first.at
        deviation(i) == Abs((actions[i].pos - first.pos) * span
                            - (last.pos - first.pos) * (actions[i].at - first.at))
        interior == (from + 1)..(to - 1)
    IN  IF to - from + 1 <= 2 THEN <<0, 1>>
        ELSE <<CHOOSE d \in {deviation(i) : i \in interior} :
                    \A i \in interior : deviation(i) <= d, span>>

\* lineDeviation(...) > threshold
Exceeds(deviation, threshold) == deviation[1] > threshold * deviation[2]

\* The inner while loop: endIdx after the line from start was extended as
\* far as it stays straight enough.
RECURSIVE ExtendLine(_, _, _, _, _)
ExtendLine(actions, start, endIdx, to, threshold) ==
    IF endIdx <= to /\ ~Exceeds(lineDeviation(actions, start, endIdx), threshold)
    THEN ExtendLine(actions, start, endIdx + 1, to, threshold)
    ELSE endIdx

\* endIdx = max(startIdx + 1, endIdx - 1)
LongestLine_KeepsBreakingPoint(actions, start, to, threshold) ==
    Min(to, ExtendLine(actions, start, start + 2, to, threshold))

LongestLine(actions, start, to, threshold) ==
    Max(start + 1, ExtendLine(actions, start, start + 2, to, threshold) - 1)

\* The outer while loop: the indices appended to the result after start.
RECURSIVE SimplifyFrom(_, _, _, _)
SimplifyFrom(actions, start, to, threshold) ==
    IF start >= to THEN <<>>
    ELSE LET endIdx == LongestLine(actions, start, to, threshold)
         IN  <<endIdx>> \o SimplifyFrom(actions, endIdx, to, threshold)

\* The indices kept of one segment.
SimplifySegment(actions, segment, threshold) ==
    IF ~Exceeds(lineDeviation(actions, segment[1], segment[2]), threshold)
    THEN <<segment[1], segment[2]>>
    ELSE <<segment[1]>> \o SimplifyFrom(actions, segment[1], segment[2], threshold)

\* connectSegments: the segments in a row, without an element that repeats
\* the one before it.
RECURSIVE connectSegments(_, _)
connectSegments(segments, i) ==
    IF i > Len(segments) THEN <<>>
    ELSE With(connectSegments(segments, i + 1), LAMBDA rest :
             LET this == segments[i]
             IN  IF rest # <<>> /\ this # <<>> /\ this[Len(this)] = rest[1]
                 THEN this \o Tail(rest) ELSE this \o rest)

\* simplifyLinearCurve(curve, threshold)
simplifyLinearCurve(curve, threshold) ==
    IF Len(curve) <= 2 THEN curve
    ELSE LET segments == splitToSegments(curve)
             simplifiedSegments == [k \in 1..Len(segments) |->
                                        SimplifySegment(curve, segments[k], threshold)]
             kept == connectSegments(simplifiedSegments, 1)
         IN  [k \in 1..Len(kept) |-> curve[kept[k]]]

(***************************************************************************)
(* SpecSimplify: simplifyLinearCurve is called once on a curve.            *)
(***************************************************************************)
MaxCurve == 5       \* most actions of the input curve

\* Times of the input actions: every 10 ms.
CurveAts == {10 * k : k \in 0..(MaxCurve - 1)}

CurvePoss == {0, 30, 50, 100}

Thresholds == {0, 5, 25}

NotSimplified == <<[at |-> -1, pos |-> -1]>>

SimplifyInit ==
    /\ \E T \in SUBSET CurveAts :
         \E p \in [1..Cardinality(T) -> CurvePoss] : sCurve = ActionsAt(T, p)
    /\ sThreshold \in Thresholds
    /\ sResult = NotSimplified
    /\ NormIdle /\ VerIdle /\ MergeIdle /\ CodecIdle /\ LimitIdle /\ PeaksIdle /\ DiscoverIdle /\ ChainIdle /\ EdgeIdle /\ SeekIdle /\ CloneIdle /\ NamesIdle /\ SceneIdle

\* simplifyLinearCurve(curve, threshold)
SimplifyCall ==
    /\ sResult = NotSimplified
    /\ sResult' = simplifyLinearCurve(sCurve, sThreshold)
    /\ UNCHANGED <<sCurve, sThreshold, outsideSimplify>>

SimplifyNext == SimplifyCall

SpecSimplify == SimplifyInit /\ [][SimplifyNext]_vars

(***************************************************************************)
(* Claims about simplifyLinearCurve                                        *)
(***************************************************************************)
\* The positions of the input curve whose action is in the result.
KeptIndices == {i \in 1..Len(sCurve) : \E k \in 1..Len(sResult) : sResult[k] = sCurve[i]}

\* C10: the result is a subsequence of the curve that keeps every peak, and
\* every removed point lies strictly between two consecutive kept points p
\* and q with lineDeviation of the input stretch from p to q within the
\* threshold.
C10_SimplifyKeepsPeaksWithinThreshold ==
    sResult # NotSimplified =>
        /\ sResult = [k \in 1..Cardinality(KeptIndices) |-> sCurve[Ascending(KeptIndices)[k]]]
        /\ \A i \in 1..Len(sCurve) : isPeak(sCurve, i) # 0 => i \in KeptIndices
        /\ \A j \in (1..Len(sCurve)) \ KeptIndices :
              \E p, q \in KeptIndices :
                  /\ p < j /\ j < q
                  /\ \A i \in KeptIndices : ~(p < i /\ i < q)
                  /\ ~Exceeds(lineDeviation(sCurve, p, q), sThreshold)

C10_Witness ==
    /\ sResult # NotSimplified
    /\ Len(sCurve) = MaxCurve
    /\ \E j \in 1..Len(sCurve) : j \notin KeptIndices
    /\ \E i \in KeptIndices : isPeak(sCurve, i) = 0

(***************************************************************************)
(* actionsAverageSpeed                                                     *)
(*                                                                         *)
(* Times are milliseconds and positions whole units.  The average is kept  *)
(* as a fraction <<numerator, denominator>> in lowest terms, in units per  *)
(* second.                                                                 *)
(***************************************************************************)
RECURSIVE GCD(_, _)
GCD(a, b) == IF b = 0 THEN a ELSE GCD(b, a % b)

\* The fraction n / d (d > 0) in lowest terms.
Fraction(n, d) == LET g == GCD(Abs(n), d) IN <<n \div g, d \div g>>

FractionAdd(u, v) == Fraction(u[1] * v[2] + v[1] * u[2], u[2] * v[2])

\* abs(speedBetween(a, b)) in units per second.
absSpeedBetween(a, b) ==
    LET speed == speedBetween(a, b) IN Fraction(Abs(speed[1]) * 1000, speed[2])

\* The zigzag peaks reached faster than 30 units per second.
FastPeaks(zigzag) ==
    SelectIdx(zigzag, LAMBDA i : i > 1 /\ Abs(speedBetween(zigzag[i - 1], zigzag[i])[1]) * 1000
                                            > 30 * speedBetween(zigzag[i - 1], zigzag[i])[2], 1)

\* numerator: over the fast peaks, the speed to the peak times the time to the
\* next one; the first has no speed to it and the last no time after it.
RECURSIVE AverageNumerator(_, _)
AverageNumerator(fast, i) ==
    IF i > Len(fast) THEN <<0, 1>>
    ELSE LET speedTo == IF i > 1 THEN absSpeedBetween(fast[i - 1], fast[i]) ELSE <<0, 1>>
             datNext == IF i < Len(fast) THEN fast[i + 1].at - fast[i].at ELSE 0
         IN  FractionAdd(Fraction(speedTo[1] * datNext, speedTo[2]), AverageNumerator(fast, i + 1))

\* actionsAverageSpeed(actions)
actionsAverageSpeed(actions) ==
    LET fast == FastPeaks(actionsToZigzag(actions))
        numerator == AverageNumerator(fast, 1)
        denominator == IF fast = <<>> THEN 0 ELSE fast[Len(fast)].at - fast[1].at
    IN  Fraction(numerator[1], numerator[2] * (IF denominator = 0 THEN 1 ELSE denominator))

(***************************************************************************)
(* SpecPeaks: isPeak is asked of every index of an action list, and        *)
(* actionsAverageSpeed of the list.                                        *)
(***************************************************************************)
MaxPeakPoints == 4  \* most actions of the input list

\* Times of the input actions: every 100 ms.
PeakAts == {100 * k : k \in 0..(MaxPeakPoints - 1)}

\* Positions of the input actions; one unit in 100 ms is slower than 30 u/s.
PeakPoss == {0, 1, 100}

NotClassified == <<2>>
NoAverage == <<-1, 1>>

PeaksInit ==
    /\ \E T \in SUBSET PeakAts :
         \E p \in [1..Cardinality(T) -> PeakPoss] : aActions = ActionsAt(T, p)
    /\ aPeaks = NotClassified
    /\ aAverage = NoAverage
    /\ NormIdle /\ VerIdle /\ MergeIdle /\ CodecIdle /\ LimitIdle /\ SimplifyIdle /\ DiscoverIdle /\ ChainIdle /\ EdgeIdle /\ SeekIdle /\ CloneIdle /\ NamesIdle /\ SceneIdle

\* [isPeak(actions, i) for i in range(len(actions))]
ClassifyCall ==
    /\ aPeaks = NotClassified
    /\ aPeaks' = [i \in 1..Len(aActions) |-> isPeak(aActions, i)]
    /\ UNCHANGED <<aActions, aAverage, outsidePeaks>>

\* actionsAverageSpeed(actions)
AverageCall ==
    /\ aAverage = NoAverage
    /\ aAverage' = actionsAverageSpeed(aActions)
    /\ UNCHANGED <<aActions, aPeaks, outsidePeaks>>

PeaksNext == ClassifyCall \/ AverageCall

SpecPeaks == PeaksInit /\ [][PeaksNext]_vars

(***************************************************************************)
(* Claims about isPeak and actionsAverageSpeed                             *)
(***************************************************************************)
\* The spec's example curve: [(0,0),(100,100),(200,0),(300,100)].
ExampleCurve ==
    <<[at |-> 0, pos |-> 0], [at |-> 100, pos |-> 100],
      [at |-> 200, pos |-> 0], [at |-> 300, pos |-> 100]>>

\* C15: for the example curve isPeak at the indices 0, 1, 2, 3 returns 1, 1,
\* -1, 1: both ends are peaks and the last element, reached by a rising
\* stroke, is classified +1.
C15_ExamplePeaks ==
    (aActions = ExampleCurve /\ aPeaks # NotClassified) => aPeaks = <<1, 1, -1, 1>>

\* Every transition between consecutive zigzag peaks has the absolute speed S.
UniformSpeed(actions, S) ==
    LET zigzag == actionsToZigzag(actions)
    IN  /\ Len(zigzag) >= 2
        /\ \A i \in 2..Len(zigzag) : absSpeedBetween(zigzag[i - 1], zigzag[i]) = S

\* C16: actionsAverageSpeed of the example curve is 1000, and whenever every
\* peak-to-peak transition of a curve has the same absolute speed S > 30 the
\* average is S.
C16_UniformSpeedIsAverage ==
    aAverage # NoAverage =>
        /\ aActions = ExampleCurve => aAverage = <<1000, 1>>
        /\ \A S \in {absSpeedBetween(aActions[i], aActions[j]) : i, j \in 1..Len(aActions)} :
              (UniformSpeed(aActions, S) /\ S[1] > 30 * S[2]) => aAverage = S

(***************************************************************************)
(* Variant discovery (funscript_utils.py)                                  *)
(*                                                                         *)
(* A file name is a sequence of pieces: "." is a piece of its own and no   *)
(* other piece holds a dot or is the start of another piece, so that       *)
(* startswith, endswith, `in` and == on the strings are the same relations *)
(* on the sequences.  A dict is a function from its keys; a path is        *)
(* represented by its file name (the directory is the same for all).       *)
(***************************************************************************)
StartsWith(s, prefix) ==
    Len(s) >= Len(prefix) /\ SubSeq(s, 1, Len(prefix)) = prefix

EndsWith(s, suffix) ==
    Len(s) >= Len(suffix) /\ SubSeq(s, Len(s) - Len(suffix) + 1, Len(s)) = suffix

Contains(s, part) ==
    \E i \in 1..(Len(s) - Len(part) + 1) : SubSeq(s, i, i + Len(part) - 1) = part

DotFunscript == <<".", "funscript">>
DotMaxDotFunscript == <<".", "max", ".", "funscript">>

AXIS_EXTENSIONS ==
    <<"stroke", "L0", "surge", "L1", "sway", "L2", "pitch", "roll", "twist">>

\* The None that extract_variant_suffix returns.
NoSuffix == <<"None">>

\* extract_variant_suffix(filename, base_name)
extract_variant_suffix(filename, base_name) ==
    IF filename = base_name \o DotFunscript THEN <<>>
    ELSE IF ~StartsWith(filename, base_name) THEN NoSuffix
    ELSE LET suffix == SubSeq(filename, Len(base_name) + 1, Len(filename))
         IN  IF StartsWith(suffix, <<".">>) THEN NoSuffix
             ELSE IF EndsWith(suffix, DotFunscript)
                  THEN SubSeq(suffix, 1, Len(suffix) - Len(DotFunscript))
             ELSE NoSuffix

\* d[key] = value
DictSet(d, key, value) ==
    [k \in (DOMAIN d) \cup {key} |-> IF k = key THEN value ELSE d[k]]

\* The first axis of AXIS_EXTENSIONS whose file name is filename, or 0.
AxisOfFile(filename, base_name) ==
    LET hits == {k \in 1..Len(AXIS_EXTENSIONS) :
                    filename = base_name \o <<".", AXIS_EXTENSIONS[k]>> \o DotFunscript}
    IN  IF hits = {} THEN 0 ELSE CHOOSE k \in hits : \A j \in hits : k <= j

\* The loop over all_scripts: each name goes to axes, to variants, or nowhere.
RECURSIVE SeparateScripts(_, _, _, _)
SeparateScripts(all_scripts, base_name, plan, i) ==
    IF i > Len(all_scripts) THEN plan
    ELSE LET filename == all_scripts[i]
             axis == AxisOfFile(filename, base_name)
             variant_suffix == extract_variant_suffix(filename, base_name)
             variant_key == IF variant_suffix = <<>> THEN <<"default">> ELSE variant_suffix
             next ==
                IF axis # 0
                THEN [plan EXCEPT !.axes = DictSet(@, AXIS_EXTENSIONS[axis], filename)]
                ELSE IF variant_suffix = NoSuffix THEN plan
                ELSE [plan EXCEPT !.variants =
                        DictSet(@, variant_key, [path |-> filename, filename |-> filename,
                                                 suffix |-> variant_suffix])]
         IN  SeparateScripts(all_scripts, base_name, next, i + 1)

EmptyPlan == [called |-> TRUE, variants |-> <<>>, axes |-> <<>>]

\* find_script_variants_and_axes(directory, base_name)
find_script_variants_and_axes(all_files, listable, base_name) ==
    IF ~listable THEN EmptyPlan
    ELSE LET all_scripts ==
                SelectIdx(all_files,
                          LAMBDA i : /\ StartsWith(all_files[i], base_name)
                                     /\ EndsWith(all_files[i], DotFunscript)
                                     /\ ~Contains(all_files[i], DotMaxDotFunscript), 1)
         IN  SeparateScripts(all_scripts, base_name, EmptyPlan, 1)

(***************************************************************************)
(* SpecDiscover: find_script_variants_and_axes is called once on a         *)
(* directory.                                                              *)
(***************************************************************************)
MaxFiles == 2       \* most entries of the directory

BaseNames == {<<"Scene">>, <<"Scene", " (Intense)">>}

\* What can follow "Scene" in the name of a directory entry.
NameTails ==
    {DotFunscript, <<".", "mp4">>, DotMaxDotFunscript,
     <<" (Intense)", ".", "funscript">>, <<" (Intense)", ".", "max", ".", "funscript">>,
     <<"default", ".", "funscript">>, <<"2", ".", "funscript">>,
     <<".", "foo", ".", "funscript">>, <<".", "surge", ".", "max", ".", "funscript">>,
     <<" (Intense)", ".", "surge", ".", "funscript">>}
    \cup {<<".", a>> \o DotFunscript : a \in AxisLikes}

DirectoryNames == {<<"Scene">> \o tail : tail \in NameTails} \cup {<<"Other", ".", "funscript">>}

NotDiscovered == [called |-> FALSE, variants |-> <<>>, axes |-> <<>>]

DiscoverInit ==
    /\ dBase \in BaseNames
    /\ \E n \in 0..MaxFiles :
         \E names \in [1..n -> DirectoryNames] :
            /\ \A i, j \in 1..n : i # j => names[i] # names[j]
            /\ dFiles = names
    /\ dListable \in BOOLEAN
    /\ dPlan = NotDiscovered
    /\ NormIdle /\ VerIdle /\ MergeIdle /\ CodecIdle /\ LimitIdle /\ SimplifyIdle /\ PeaksIdle /\ ChainIdle /\ EdgeIdle /\ SeekIdle /\ CloneIdle /\ NamesIdle /\ SceneIdle

\* find_script_variants_and_axes(directory, base_name)
DiscoverCall ==
    /\ ~dPlan.called
    /\ dPlan' = find_script_variants_and_axes(dFiles, dListable, dBase)
    /\ UNCHANGED <<dBase, dFiles, dListable, outsideDiscover>>

DiscoverNext == DiscoverCall

SpecDiscover == DiscoverInit /\ [][DiscoverNext]_vars

(***************************************************************************)
(* Claims about variant discovery                                          *)
(***************************************************************************)
Listed == {dFiles[i] : i \in 1..Len(dFiles)}
InVariants(filename) == \E k \in DOMAIN dPlan.variants : dPlan.variants[k].filename = filename
InAxes(filename) == \E a \in DOMAIN dPlan.axes : dPlan.axes[a] = filename

\* C12: `<base>.<axis>.funscript` is classified as the axis file of that axis
\* for every one of the seven channel names and for every alias (L0, L1, L2,
\* R0, R1, R2, A1).
C12_EveryAxisNameAndAlias ==
    (dPlan.called /\ dListable) =>
        \A a \in AxisLikes :
            LET filename == dBase \o <<".", a>> \o DotFunscript
            IN  filename \in Listed =>
                    a \in DOMAIN dPlan.axes /\ dPlan.axes[a] = filename /\ ~InVariants(filename)

\* C13: every directory entry lands in at most one of {variants, axes};
\* `<base>.funscript` is the variant keyed 'default'; `<base><suffix>.funscript`
\* with a suffix that does not start with '.' is a variant keyed by that exact
\* suffix; a name containing `.max.funscript`, and a non-axis name whose
\* remainder after <base> starts with '.', is in neither.
C13_VariantsAndAxesDisjoint ==
    (dPlan.called /\ dListable) =>
        \A filename \in Listed :
            LET rest == SubSeq(filename, Len(dBase) + 1, Len(filename))
                suffix == SubSeq(rest, 1, Len(rest) - Len(DotFunscript))
                isAxis == \E a \in AxisLikes : filename = dBase \o <<".", a>> \o DotFunscript
            IN  /\ ~(InVariants(filename) /\ InAxes(filename))
                /\ Contains(filename, DotMaxDotFunscript) =>
                      ~InVariants(filename) /\ ~InAxes(filename)
                /\ (StartsWith(filename, dBase) /\ ~Contains(filename, DotMaxDotFunscript)) =>
                      /\ filename = dBase \o DotFunscript =>
                            /\ <<"default">> \in DOMAIN dPlan.variants
                            /\ dPlan.variants[<<"default">>].filename = filename
                      /\ (EndsWith(rest, DotFunscript) /\ suffix # <<>> /\ suffix[1] # ".") =>
                            /\ suffix \in DOMAIN dPlan.variants
                            /\ dPlan.variants[suffix].filename = filename
                      /\ (rest # <<>> /\ rest[1] = "." /\ ~isAxis /\ rest # DotFunscript) =>
                            ~InVariants(filename) /\ ~InAxes(filename)

(***************************************************************************)
(* smoothCurve and handySmooth                                             *)
(*                                                                         *)
(* Positions are fixed-point numbers, integer counts of 1/PosScale of a    *)
(* unit as in limitPeakSpeed; a quotient that is not a multiple of the     *)
(* resolution is cut to it.  Times are exact: they are whole milliseconds  *)
(* outside handySmooth, and inside it, where merging two points halves the *)
(* sum of their times, both the times and the positions are counted in     *)
(* 1/AtScale of their outer unit.  Scaling both alike leaves every speed   *)
(* as it is, so limitPeakSpeed and simplifyLinearCurve apply unchanged     *)
(* (the threshold, a position, is scaled with the positions).              *)
(***************************************************************************)
MaxChainPoints == 3 \* most actions of a curve handed to the transformations

\* A list of n points is merged at most n - 1 times and each merge costs one
\* binary digit of the time.
AtScale == 2 ^ (MaxChainPoints - 1)

\* Python's round() of the quotient x / unit: the nearest integer, a tie to
\* the even one.
RoundDiv(x, unit) ==
    LET q == x \div unit
        r == x % unit
    IN  IF 2 * r < unit THEN q
        ELSE IF 2 * r > unit THEN q + 1
        ELSE IF q % 2 = 0 THEN q ELSE q + 1

\* smoothCurve: the position of point i after its turn in a pass, the mean of
\* `positions` within `radius` indices of i, weighted by
\* max(0, timeRadius - distance in time).  timeRadius is positive, so the
\* weight of the point itself is and the sum of the weights is not zero.
radius == 5

RECURSIVE WeightedSum(_, _, _, _, _)
WeightedSum(curve, values, i, timeRadius, index) ==
    IF index > Min(Len(curve), i + radius) THEN 0
    ELSE values[index] * Max(0, timeRadius - Abs(curve[index].at - curve[i].at))
         + WeightedSum(curve, values, i, timeRadius, index + 1)

WeightedMean(curve, positions, i, timeRadius) ==
    LET from == Max(1, i - radius)
        ones == [k \in 1..Len(curve) |-> 1]
    IN  WeightedSum(curve, positions, i, timeRadius, from)
            \div WeightedSum(curve, ones, i, timeRadius, from)

\* One pass from point i on: `positions` already holds the new positions of
\* the points before i.
RECURSIVE SmoothPass(_, _, _, _, _)
SmoothPass(curve, positions, i, timeRadius, preserveEnds) ==
    IF i > Len(curve) THEN positions
    ELSE IF preserveEnds /\ (i = 1 \/ i = Len(curve))
    THEN SmoothPass(curve, positions, i + 1, timeRadius, preserveEnds)
    ELSE SmoothPass(curve,
                    [positions EXCEPT ![i] = WeightedMean(curve, positions, i, timeRadius)],
                    i + 1, timeRadius, preserveEnds)

RECURSIVE SmoothPasses(_, _, _, _, _)
SmoothPasses(curve, positions, timeRadius, iterations, preserveEnds) ==
    IF iterations = 0 THEN positions
    ELSE SmoothPasses(curve, SmoothPass(curve, positions, 1, timeRadius, preserveEnds),
                      timeRadius, iterations - 1, preserveEnds)

\* smoothCurve(curve, timeRadius, iterations, preserveEnds)
smoothCurve_SmoothsTimes(curve, timeRadius, iterations, preserveEnds) ==
    LET positions == SmoothPasses(curve, [k \in 1..Len(curve) |-> curve[k].pos],
                                  timeRadius, iterations, preserveEnds)
        times == SmoothPasses(curve, [k \in 1..Len(curve) |-> curve[k].at],
                              timeRadius, iterations, preserveEnds)
    IN  [k \in 1..Len(curve) |-> [at |-> times[k], pos |-> positions[k]]]

smoothCurve(curve, timeRadius, iterations, preserveEnds) ==
    LET positions == SmoothPasses(curve, [k \in 1..Len(curve) |-> curve[k].pos],
                                  timeRadius, iterations, preserveEnds)
    IN  [k \in 1..Len(curve) |-> [curve[k] EXCEPT !.pos = positions[k]]]

HANDY_MAX_SPEED == 550
HANDY_MIN_INTERVAL == 60
HANDY_MAX_STRAIGHT_THRESHOLD == 3

\* Inside handySmooth an action is [at, pos, id]: at and pos in 1/AtScale of
\* a millisecond and of 1/PosScale unit, id the index of the object in the
\* input, which tells two objects of equal value apart as `!=` does.
HandyUnit == PosScale * AtScale

\* lineDeviation divides by the time between its endpoints.
DeviationUndefined(actions, from, to) ==
    to - from + 1 > 2 /\ actions[to].at = actions[from].at

\* lineDeviation(segment) <= HANDY_MAX_STRAIGHT_THRESHOLD
Straight(segment) ==
    ~Exceeds(lineDeviation(segment, 1, Len(segment)), HANDY_MAX_STRAIGHT_THRESHOLD * HandyUnit)

straigten(segment) ==
    IF Len(segment) <= 2 THEN segment
    ELSE IF Straight(segment) THEN <<segment[1], segment[Len(segment)]>>
    ELSE segment

\* absSpeedBetween(a, b) < speed
SlowerThan(a, b, speed) ==
    LET s == speedBetween(a, b) IN Abs(s[1]) * 1000 < speed * PosScale * s[2]

\* The middle of a segment after the two filters of simplifySegment.
HandyMiddle(segment) ==
    LET first == segment[1]
        last == segment[Len(segment)]
        middle == SubSeq(segment, 2, Len(segment) - 1)
        slow == SelectIdx(middle, LAMBDA k : /\ SlowerThan(first, middle[k], HANDY_MAX_SPEED)
                                             /\ SlowerThan(middle[k], last, HANDY_MAX_SPEED), 1)
    IN  SelectIdx(slow, LAMBDA k : /\ slow[k].at - first.at >= HANDY_MIN_INTERVAL * AtScale
                                   /\ last.at - slow[k].at >= HANDY_MIN_INTERVAL * AtScale, 1)

\* minBy(middle, lambda e: abs(e.at - middleDuration / 2)): the first of the
\* elements with the least key.
ClosestToHalf(middle, middleDuration) ==
    LET key(k) == Abs(2 * middle[k].at - middleDuration)
        k == CHOOSE k \in 1..Len(middle) :
                /\ \A j \in 1..Len(middle) : key(k) <= key(j)
                /\ \A j \in 1..(k - 1) : key(j) > key(k)
    IN  middle[k]

\* simplifySegment of handySmooth
RECURSIVE simplifySegment(_)
simplifySegment(segment) ==
    IF Len(segment) <= 2 THEN segment
    ELSE With(HandyMiddle(segment), LAMBDA middle :
             LET first == segment[1]
                 last == segment[Len(segment)]
                 middleDuration == middle[Len(middle)].at - middle[1].at
             IN  IF Straight(segment) THEN <<first, last>>
                 ELSE IF TooFast(first, last, HANDY_MAX_SPEED) THEN <<first, last>>
                 ELSE IF middle = <<>> THEN <<first, last>>
                 ELSE IF Len(middle) = 1 THEN straigten(<<first, middle[1], last>>)
                 ELSE IF middleDuration < HANDY_MIN_INTERVAL * AtScale
                 THEN straigten(<<first, ClosestToHalf(middle, middleDuration), last>>)
                 ELSE <<first>> \o simplifySegment(middle) \o <<last>>)

\* simplifySegment asks lineDeviation for a segment whose ends share a time.
RECURSIVE SegmentDividesByZero(_)
SegmentDividesByZero(segment) ==
    /\ Len(segment) > 2
    /\ \/ DeviationUndefined(segment, 1, Len(segment))
       \/ With(HandyMiddle(segment), LAMBDA middle :
              /\ ~Straight(segment)
              /\ ~TooFast(segment[1], segment[Len(segment)], HANDY_MAX_SPEED)
              /\ Len(middle) >= 2
              /\ middle[Len(middle)].at - middle[1].at >= HANDY_MIN_INTERVAL * AtScale
              /\ SegmentDividesByZero(middle))

\* The body of pass 3 for the pair (i - 1, i): the earlier point moves half
\* way to the later one, in time and in position, and the later one is
\* popped.
MergePair(filteredActions, i) ==
    LET current == filteredActions[i]
        prev == filteredActions[i - 1]
        merged == [prev EXCEPT !.pos = (prev.pos + current.pos) \div 2,
                               !.at = (prev.at + current.at) \div 2]
    IN  SubSeq(filteredActions, 1, i - 2) \o <<merged>>
            \o SubSeq(filteredActions, i + 1, Len(filteredActions))

\* Pass 3, from index i on: a point slower than 10 after its predecessor, one
\* of the two a peak, is merged into the predecessor.
RECURSIVE MergeClose(_, _)
MergeClose(filteredActions, i) ==
    IF i > Len(filteredActions) THEN filteredActions
    ELSE IF isPeak(filteredActions, i) = 0 /\ isPeak(filteredActions, i - 1) = 0
    THEN MergeClose(filteredActions, i + 1)
    ELSE IF TooFast(filteredActions[i - 1], filteredActions[i], 10)
    THEN MergeClose(filteredActions, i + 1)
    ELSE With(MergePair(filteredActions, i), LAMBDA merged : MergeClose(merged, i))

\* simplifyLinearCurve asks lineDeviation for a stretch whose ends share a
\* time: the whole of a segment, or a stretch the inner loop reaches.
RECURSIVE StretchDividesByZero(_, _, _, _)
StretchDividesByZero(actions, start, to, threshold) ==
    /\ start < to
    /\ \/ \E endIdx \in (start + 2)..Min(to, ExtendLine(actions, start, start + 2, to, threshold)) :
             DeviationUndefined(actions, start, endIdx)
       \/ StretchDividesByZero(actions, LongestLine(actions, start, to, threshold), to, threshold)

CurveDividesByZero(curve, threshold) ==
    /\ Len(curve) > 2
    /\ \E k \in 1..Len(splitToSegments(curve)) :
          LET segment == splitToSegments(curve)[k]
          IN  \/ DeviationUndefined(curve, segment[1], segment[2])
              \/ /\ Exceeds(lineDeviation(curve, segment[1], segment[2]), threshold)
                 /\ StretchDividesByZero(curve, segment[1], segment[2], threshold)

\* The outcome of a call: the list returned, or the exception raised.
ReturnedList(actions) == [type |-> "list", actions |-> actions]
RaisedError(exception) == [type |-> exception, actions |-> <<>>]

\* Pass 0 of handySmooth: the clones, their positions rounded.
HandyClones(actions) ==
    [k \in 1..Len(actions) |->
        [at |-> actions[k].at * AtScale,
         pos |-> RoundDiv(actions[k].pos, PosScale) * HandyUnit,
         id |-> k]]

\* Passes 1 and 2: the segments, each simplified.
HandySegments(actions) ==
    With(HandyClones(actions), LAMBDA clones :
        With(splitToSegments(clones), LAMBDA segments :
            [k \in 1..Len(segments) |-> SubSeq(clones, segments[k][1], segments[k][2])]))

\* filteredActions after pass 3.
HandyMerged(actions) ==
    With(HandySegments(actions), LAMBDA segments :
        With([k \in 1..Len(segments) |-> simplifySegment(segments[k])], LAMBDA filteredSegments :
            With(connectSegments(filteredSegments, 1), LAMBDA filteredActions :
                MergeClose(filteredActions, 2))))

\* handySmooth(actions)
handySmooth(actions) ==
    LET threshold == HANDY_MAX_STRAIGHT_THRESHOLD * HandyUnit
        rounded(simplified) ==
            [k \in 1..Len(simplified) |->
                [at |-> RoundDiv(simplified[k].at, AtScale),
                 pos |-> RoundDiv(simplified[k].pos, HandyUnit) * PosScale]]
    IN  IF \E segment \in {HandySegments(actions)[k] : k \in 1..Len(HandySegments(actions))} :
               SegmentDividesByZero(segment)
        THEN RaisedError("ZeroDivisionError")
        ELSE With(HandyMerged(actions), LAMBDA filteredActions :
                 With(limitPeakSpeed(filteredActions, HANDY_MAX_SPEED), LAMBDA limited :
                     IF limited.type # "list" THEN RaisedError(limited.type)
                     ELSE IF CurveDividesByZero(limited.actions, threshold)
                     THEN RaisedError("ZeroDivisionError")
                     ELSE With(simplifyLinearCurve(limited.actions, threshold), LAMBDA simplified :
                              ReturnedList(rounded(simplified)))))

(***************************************************************************)
(* SpecChain: smoothCurve, simplifyLinearCurve, limitPeakSpeed and         *)
(* handySmooth are applied one after another, in any order, to a list of   *)
(* actions as normalize leaves it: whole milliseconds, strictly ascending, *)
(* whole positions.  A call that raises ends the chain.  The times of the  *)
(* chain are exact; a position may differ from the float of the source by  *)
(* the resolution, and with it the rounding of a position that close to a  *)
(* half and the comparison of two positions that close to each other.      *)
(***************************************************************************)
MaxSteps == 2       \* most transformations applied in a row

\* Times of the input actions: neighbouring milliseconds, whose mean is a
\* half, and times HANDY_MIN_INTERVAL and more apart.
ChainAts == {0, 1, 2, 3, 65, 130}

\* Positions of the input actions.
ChainPoss == {0, 20 * PosScale, 30 * PosScale}

\* Arguments of the calls.
ChainTimeRadius == 50   \* the default of smoothCurve
ChainSmoothings == {[iterations |-> 1, preserveEnds |-> FALSE],
                    [iterations |-> 2, preserveEnds |-> TRUE]}
ChainThresholds == {HANDY_MAX_STRAIGHT_THRESHOLD}
ChainSpeeds == {HANDY_MAX_SPEED}

NoCall == [name |-> "None", argument |-> 0, preserveEnds |-> FALSE, raised |-> None]
Call(name, argument, preserveEnds, raised) ==
    [name |-> name, argument |-> argument, preserveEnds |-> preserveEnds, raised |-> raised]

ChainInit ==
    /\ \E T \in SUBSET ChainAts :
         /\ Cardinality(T) <= MaxChainPoints
         /\ \E p \in [1..Cardinality(T) -> ChainPoss] : tActions = ActionsAt(T, p)
    /\ tPrev = tActions
    /\ tLast = NoCall
    /\ tSteps = 0
    /\ NormIdle /\ VerIdle /\ MergeIdle /\ CodecIdle /\ LimitIdle /\ SimplifyIdle /\ PeaksIdle /\ DiscoverIdle /\ EdgeIdle /\ SeekIdle /\ CloneIdle /\ NamesIdle /\ SceneIdle

Chained == tSteps < MaxSteps /\ tLast.raised = None

\* smoothCurve(actions, iterations=..., preserveEnds=...)
Smooth ==
    /\ Chained
    /\ \E args \in ChainSmoothings :
         /\ tActions' = smoothCurve(tActions, ChainTimeRadius, args.iterations, args.preserveEnds)
         /\ tLast' = Call("smoothCurve", args.iterations, args.preserveEnds, None)
    /\ tPrev' = tActions
    /\ tSteps' = tSteps + 1
    /\ UNCHANGED outsideChain

\* simplifyLinearCurve(actions, threshold); a segment of three and more
\* actions between two times that are equal makes lineDeviation divide by 0.
Simplify ==
    /\ Chained
    /\ \E threshold \in ChainThresholds :
         IF CurveDividesByZero(tActions, threshold * PosScale)
         THEN /\ tActions' = tActions
              /\ tLast' = Call("simplifyLinearCurve", threshold, FALSE, "ZeroDivisionError")
         ELSE /\ tActions' = simplifyLinearCurve(tActions, threshold * PosScale)
              /\ tLast' = Call("simplifyLinearCurve", threshold, FALSE, None)
    /\ tPrev' = tActions
    /\ tSteps' = tSteps + 1
    /\ UNCHANGED outsideChain

\* limitPeakSpeed(actions, maxSpeed)
Limit ==
    /\ Chained
    /\ \E maxSpeed \in ChainSpeeds :
         LET result == limitPeakSpeed(tActions, maxSpeed)
         IN  /\ tActions' = IF result.type = "list" THEN result.actions ELSE tActions
             /\ tLast' = Call("limitPeakSpeed", maxSpeed, FALSE,
                              IF result.type = "list" THEN None ELSE result.type)
    /\ tPrev' = tActions
    /\ tSteps' = tSteps + 1
    /\ UNCHANGED outsideChain

\* handySmooth(actions)
Handy ==
    /\ Chained
    /\ LET result == handySmooth(tActions)
       IN  /\ tActions' = IF result.type = "list" THEN result.actions ELSE tActions
           /\ tLast' = Call("handySmooth", 0, FALSE,
                            IF result.type = "list" THEN None ELSE result.type)
    /\ tPrev' = tActions
    /\ tSteps' = tSteps + 1
    /\ UNCHANGED outsideChain

ChainNext == Smooth \/ Simplify \/ Limit \/ Handy

SpecChain == ChainInit /\ [][ChainNext]_vars

(***************************************************************************)
(* Claims about the chain of transformations                               *)
(***************************************************************************)
\* C11: applied to a normalized action list, smoothCurve,
\* simplifyLinearCurve, limitPeakSpeed and handySmooth, and any sequence of
\* them, leave a list that is strictly ascending in at: the averaging and the
\* final rounding of the times in handySmooth never make two times equal or
\* reverse them.
C11_TransformationsKeepAscending == StrictlyAscending(tActions)

\* The second transformation in a row was handySmooth, it merged two points a
\* millisecond apart into one between them, at a time ending in .5, and
\* returned that point, rounded, among others.
C11_Witness ==
    /\ tSteps = 2
    /\ tLast.name = "handySmooth" /\ tLast.raised = None
    /\ Len(tActions) >= 2
    /\ Len(tActions) = Len(HandyMerged(tPrev))
    /\ \E k \in 1..Len(tActions) : (2 * HandyMerged(tPrev)[k].at) % (2 * AtScale) = AtScale

\* C20: within one pass of smoothCurve every new position is the weighted
\* mean of the positions as they were when the pass began; a neighbour the
\* pass has already updated counts with its old position.
C20_PassUsesStartOfPassPositions ==
    (tLast.name = "smoothCurve" /\ tLast.argument = 1) =>
        \A i \in 1..Len(tActions) :
            ~(tLast.preserveEnds /\ i \in {1, Len(tActions)}) =>
                tActions[i].pos
                    = WeightedMean(tPrev, [k \in 1..Len(tPrev) |-> tPrev[k].pos], i, ChainTimeRadius)

(***************************************************************************)
(* clerpAt and actionsRequiredMaxSpeed                                     *)
(***************************************************************************)
\* The while loop of binaryFindLeftBorder, on indices from 1.
RECURSIVE BinarySearch(_, _, _, _)
BinarySearch(actions, at, left, right) ==
    IF left < right
    THEN LET mid == (left + right) \div 2
         IN  IF actions[mid].at < at THEN BinarySearch(actions, at, mid + 1, right)
             ELSE BinarySearch(actions, at, left, mid)
    ELSE left

\* binaryFindLeftBorder(actions, at), an index from 1.
binaryFindLeftBorder(actions, at) ==
    IF Len(actions) <= 1 THEN 1
    ELSE IF at < actions[1].at THEN 1
    ELSE IF at > actions[Len(actions)].at THEN Len(actions)
    ELSE With(BinarySearch(actions, at, 1, Len(actions)), LAMBDA left :
             IF left > 1 /\ actions[left].at > at THEN left - 1 ELSE left)

\* clamplerp(value, inMin, inMax, outMin, outMax)
clamplerp(value, inMin, inMax, outMin, outMax) ==
    IF inMin = inMax THEN LerpAt(outMin, outMax, inMin, inMax, value)
    ELSE IF (value - inMin) * Sign(inMax - inMin) <= 0 THEN outMin
    ELSE IF (value - inMax) * Sign(inMax - inMin) >= 0 THEN outMax
    ELSE LerpAt(outMin, outMax, inMin, inMax, value)

\* clerpAt(actions, at): a position in 1/PosScale of a unit.
clerpAt(actions, at) ==
    IF Len(actions) = 0 THEN 50 * PosScale
    ELSE IF Len(actions) = 1 THEN actions[1].pos
    ELSE IF at <= actions[1].at THEN actions[1].pos
    ELSE IF at >= actions[Len(actions)].at THEN actions[Len(actions)].pos
    ELSE With(binaryFindLeftBorder(actions, at), LAMBDA leftIndex :
             IF at = actions[leftIndex].at THEN actions[leftIndex].pos
             ELSE IF leftIndex + 1 > Len(actions) THEN actions[leftIndex].pos
             ELSE clamplerp(at, actions[leftIndex].at, actions[leftIndex + 1].at,
                            actions[leftIndex].pos, actions[leftIndex + 1].pos))

\* requiredSpeeds of actionsRequiredMaxSpeed: for every action but the last,
\* the speed to the next peak and the time to it.  The last action always
\* counts as a peak, so a next peak exists.
RequiredSpeeds(actions) ==
    [i \in 1..(Len(actions) - 1) |->
        LET nextPeakIndex == CHOOSE idx \in (i + 1)..Len(actions) :
                                 /\ isPeak(actions, idx) # 0
                                 /\ \A j \in (i + 1)..(idx - 1) : isPeak(actions, j) = 0
        IN  [speed |-> absSpeedBetween(actions[i], actions[nextPeakIndex]),
             duration |-> actions[nextPeakIndex].at - actions[i].at]]

\* actionsRequiredMaxSpeed(actions): the highest of the required speeds that
\* last 50 ms and more, as a fraction, 0 when there is none.
actionsRequiredMaxSpeed(actions) ==
    IF Len(actions) < 2 THEN <<0, 1>>
    ELSE With(RequiredSpeeds(actions), LAMBDA requiredSpeeds :
             LET lasting == {i \in 1..Len(requiredSpeeds) : requiredSpeeds[i].duration >= 50}
             IN  IF lasting = {} THEN <<0, 1>>
                 ELSE requiredSpeeds[CHOOSE i \in lasting :
                         \A j \in lasting :
                             ~SpeedLess(requiredSpeeds[i].speed, requiredSpeeds[j].speed)].speed)

(***************************************************************************)
(* SpecEdge: one of the curve functions is called on a degenerate action   *)
(* list: an empty one, one of a single action, or one whose actions all    *)
(* share one time.  Positions are whole units in the list; the functions   *)
(* that compute positions get them in 1/PosScale of a unit.                *)
(***************************************************************************)
MaxEdgePoints == 3  \* most actions of a degenerate list

EdgeAts == {0, 100}
EdgePoss == {0, 50, 100}

\* Second arguments of the calls.
EdgeThresholds == {0, HANDY_MAX_STRAIGHT_THRESHOLD}
EdgeSpeeds == {100, HANDY_MAX_SPEED}
EdgeQueries == {0, 50, 100}     \* the `at` of clerpAt

Fixed(actions) == [i \in 1..Len(actions) |-> [actions[i] EXCEPT !.pos = actions[i].pos * PosScale]]

Outcome(type, value) == [type |-> type, value |-> value]
EdgeCall(name, argument) == [name |-> name, argument |-> argument]
NoEdgeCall == EdgeCall("None", 0)
NoOutcome == Outcome("None", <<>>)

EdgeInit ==
    /\ \E n \in 0..MaxEdgePoints, t \in EdgeAts :
         \E p \in [1..n -> EdgePoss] : eActions = [i \in 1..n |-> [at |-> t, pos |-> p[i]]]
    /\ eCall = NoEdgeCall
    /\ eOutcome = NoOutcome
    /\ NormIdle /\ VerIdle /\ MergeIdle /\ CodecIdle /\ LimitIdle /\ SimplifyIdle /\ PeaksIdle /\ DiscoverIdle /\ ChainIdle /\ SeekIdle /\ CloneIdle /\ NamesIdle /\ SceneIdle

\* splitToSegments(actions): the index ranges
EdgeSplit ==
    /\ eCall = NoEdgeCall
    /\ eCall' = EdgeCall("splitToSegments", 0)
    /\ eOutcome' = Outcome("list", splitToSegments(eActions))
    /\ UNCHANGED <<eActions, outsideEdge>>

\* connectSegments(splitToSegments(actions)): the indices
EdgeConnect ==
    /\ eCall = NoEdgeCall
    /\ eCall' = EdgeCall("connectSegments", 0)
    /\ eOutcome' = With(splitToSegments(eActions), LAMBDA segments :
                       Outcome("list", connectSegments(
                           [k \in 1..Len(segments) |->
                               [j \in 1..(segments[k][2] - segments[k][1] + 1) |->
                                   segments[k][1] + j - 1]], 1)))
    /\ UNCHANGED <<eActions, outsideEdge>>

\* simplifyLinearCurve(actions, threshold)
EdgeSimplify ==
    /\ eCall = NoEdgeCall
    /\ \E threshold \in EdgeThresholds :
         /\ eCall' = EdgeCall("simplifyLinearCurve", threshold)
         /\ eOutcome' = IF CurveDividesByZero(Fixed(eActions), threshold * PosScale)
                        THEN Outcome("ZeroDivisionError", <<>>)
                        ELSE Outcome("list", simplifyLinearCurve(Fixed(eActions), threshold * PosScale))
    /\ UNCHANGED <<eActions, outsideEdge>>

\* limitPeakSpeed(actions, maxSpeed)
EdgeLimit ==
    /\ eCall = NoEdgeCall
    /\ \E maxSpeed \in EdgeSpeeds :
         /\ eCall' = EdgeCall("limitPeakSpeed", maxSpeed)
         /\ eOutcome' = With(limitPeakSpeed(Fixed(eActions), maxSpeed), LAMBDA result :
                            Outcome(result.type, result.actions))
    /\ UNCHANGED <<eActions, outsideEdge>>

\* handySmooth(actions)
EdgeHandy ==
    /\ eCall = NoEdgeCall
    /\ eCall' = EdgeCall("handySmooth", 0)
    /\ eOutcome' = With(handySmooth(Fixed(eActions)), LAMBDA result :
                       Outcome(result.type, result.actions))
    /\ UNCHANGED <<eActions, outsideEdge>>

\* smoothCurve(actions)
EdgeSmooth ==
    /\ eCall = NoEdgeCall
    /\ eCall' = EdgeCall("smoothCurve", ChainTimeRadius)
    /\ eOutcome' = Outcome("list", smoothCurve(Fixed(eActions), ChainTimeRadius, 1, FALSE))
    /\ UNCHANGED <<eActions, outsideEdge>>

\* actionsRequiredMaxSpeed(actions)
EdgeRequiredMaxSpeed ==
    /\ eCall = NoEdgeCall
    /\ eCall' = EdgeCall("actionsRequiredMaxSpeed", 0)
    /\ eOutcome' = Outcome("number", actionsRequiredMaxSpeed(eActions))
    /\ UNCHANGED <<eActions, outsideEdge>>

\* actionsAverageSpeed(actions)
EdgeAverageSpeed ==
    /\ eCall = NoEdgeCall
    /\ eCall' = EdgeCall("actionsAverageSpeed", 0)
    /\ eOutcome' = Outcome("number", actionsAverageSpeed(eActions))
    /\ UNCHANGED <<eActions, outsideEdge>>

\* clerpAt(actions, at)
EdgeClerpAt ==
    /\ eCall = NoEdgeCall
    /\ \E at \in EdgeQueries :
         /\ eCall' = EdgeCall("clerpAt", at)
         /\ eOutcome' = Outcome("number", clerpAt(Fixed(eActions), at))
    /\ UNCHANGED <<eActions, outsideEdge>>

EdgeNext ==
    \/ EdgeSplit \/ EdgeConnect \/ EdgeSimplify \/ EdgeLimit \/ EdgeHandy
    \/ EdgeSmooth \/ EdgeRequiredMaxSpeed \/ EdgeAverageSpeed \/ EdgeClerpAt

SpecEdge == EdgeInit /\ [][EdgeNext]_vars

(***************************************************************************)
(* Claims about degenerate curves                                          *)
(***************************************************************************)
\* C14: on an empty action list, a list of one action and a list whose
\* actions all share one time, splitToSegments, connectSegments,
\* simplifyLinearCurve, limitPeakSpeed, handySmooth, smoothCurve,
\* actionsRequiredMaxSpeed, actionsAverageSpeed and clerpAt return a result
\* and raise nothing, and clerpAt of an empty list is 50.
C14_DegenerateInputsNeverRaise ==
    eCall # NoEdgeCall =>
        /\ eOutcome.type \in {"list", "number"}
        /\ (eCall.name = "clerpAt" /\ eActions = <<>>) => eOutcome.value = 50 * PosScale

(***************************************************************************)
(* SpecSeek: on an action list sorted by at, in which several actions may  *)
(* share a time, either binaryFindLeftBorder is asked for a time or the    *)
(* list is split into segments and connected again.  Indices count from 1  *)
(* here and from 0 in the source.                                          *)
(***************************************************************************)
MaxSeekPoints == 4  \* most actions of the list

SeekAts == {0, 5, 10, 15}
SeekPoss == {0, 50, 100}

\* The times asked for: before, at, between and after those of the actions.
SeekQueries == {-1, 0, 3, 5, 10, 16}

NoSeekCall == EdgeCall("None", 0)

SeekInit ==
    /\ \E n \in 0..MaxSeekPoints :
         \E ats \in [1..n -> SeekAts], p \in [1..n -> SeekPoss] :
            /\ \A i \in 1..(n - 1) : ats[i] <= ats[i + 1]
            /\ bActions = [i \in 1..n |-> [at |-> ats[i], pos |-> p[i]]]
    /\ bCall = NoSeekCall
    /\ bResult = 0
    /\ NormIdle /\ VerIdle /\ MergeIdle /\ CodecIdle /\ LimitIdle /\ SimplifyIdle /\ PeaksIdle /\ DiscoverIdle /\ ChainIdle /\ EdgeIdle /\ CloneIdle /\ NamesIdle /\ SceneIdle

\* binaryFindLeftBorder(actions, at)
FindCall ==
    /\ bCall = NoSeekCall
    /\ \E at \in SeekQueries :
         /\ bCall' = EdgeCall("binaryFindLeftBorder", at)
         /\ bResult' = binaryFindLeftBorder(bActions, at)
    /\ UNCHANGED <<bActions, outsideSeek>>

\* connectSegments(splitToSegments(actions)): the indices of the actions
\* returned.
ConnectCall ==
    /\ bCall = NoSeekCall
    /\ bCall' = EdgeCall("connectSegments", 0)
    /\ bResult' = With(splitToSegments(bActions), LAMBDA segments :
                      connectSegments(
                          [k \in 1..Len(segments) |->
                              [j \in 1..(segments[k][2] - segments[k][1] + 1) |->
                                  segments[k][1] + j - 1]], 1))
    /\ UNCHANGED <<bActions, outsideSeek>>

SeekNext == FindCall \/ ConnectCall

SpecSeek == SeekInit /\ [][SeekNext]_vars

(***************************************************************************)
(* Claims about segments and search                                        *)
(***************************************************************************)
\* C21: connectSegments is the inverse of splitToSegments: for every action
\* list with strictly ascending at, of any length, a single action included,
\* connectSegments(splitToSegments(a)) is a, each shared peak once.
C21_ConnectInvertsSplit ==
    (bCall.name = "connectSegments" /\ StrictlyAscending(bActions)) =>
        bResult = [i \in 1..Len(bActions) |-> i]

\* C21, amended: for every action list with strictly ascending at other than
\* a list of a single action, connectSegments(splitToSegments(a)) is a, each
\* shared peak once; a single action lies between no two peaks, is in no
\* segment, and the result is the empty list.
C21_ConnectInvertsSplitButForOneAction ==
    (bCall.name = "connectSegments" /\ StrictlyAscending(bActions)) =>
        bResult = IF Len(bActions) = 1 THEN <<>> ELSE [i \in 1..Len(bActions) |-> i]

\* A list of strictly ascending times with two segments and more, which share
\* their peaks, was split and connected.
C21_Witness ==
    /\ bCall.name = "connectSegments" /\ StrictlyAscending(bActions)
    /\ Len(splitToSegments(bActions)) >= 2
    /\ \E k \in 1..Len(splitToSegments(bActions)) :
          splitToSegments(bActions)[k][2] - splitToSegments(bActions)[k][1] >= 2
    /\ bResult = [i \in 1..Len(bActions) |-> i]

\* C22: for every action list sorted by at and every time asked for,
\* binaryFindLeftBorder returns the rightmost index whose at is not after the
\* time, the first index when the time is before the first action and the
\* last when it is after the last.
C22_RightmostNotAfter ==
    bCall.name = "binaryFindLeftBorder" =>
        LET notAfter == {i \in 1..Len(bActions) : bActions[i].at <= bCall.argument}
        IN  IF notAfter = {} THEN bResult = 1
            ELSE bResult = CHOOSE i \in notAfter : \A j \in notAfter : j <= i

(***************************************************************************)
(* SpecClone: a Funscript without channels that carries metadata is the    *)
(* source of one construction: clone(), or mergeMultiAxis with the source  *)
(* as the primary script and some secondary scripts of its group.          *)
(***************************************************************************)
MaxChapters == 1     \* most chapters, and most bookmarks, of the source
MaxSecondaries == 2  \* most secondary scripts merged with the source

CloneTitles == {"", "T"}
CloneDurations == {0, 10, 20}   \* seconds

\* FunMetadata(): no title, no chapters, no bookmarks, duration 0.
NewFunMetadata == [title |-> "", chapters |-> <<>>, bookmarks |-> <<>>, duration |-> 0]

Built(type, metadata) == [type |-> type, metadata |-> metadata]

\* Funscript(funscript) and Funscript(funscript, extras) for a Funscript
\* object: self.metadata = Metadata(); the file of the source is cloned,
\* which raises; the metadata of the source is read on the dict branch only.
FunscriptFromObject(funscript) ==
    IF funscript.file # NoFile
    THEN Built(FunscriptFile_clone(funscript.file).type, NewFunMetadata)
    ELSE Built("Funscript", NewFunMetadata)

\* Funscript.clone: misc.clone(self) is type(self)(self).
Funscript_clone(self) == FunscriptFromObject(self)

\* The merged script of mergeMultiAxis for a primary script and the
\* secondary scripts of its group: a group of one is returned as it is, a
\* larger one is Funscript(mainScript, {'channels': secondaryScripts, ...}).
MergedParent(mainScript, secondaries) ==
    IF secondaries = 0 THEN Built("Funscript", mainScript.metadata)
    ELSE FunscriptFromObject(mainScript)

CloneCall(name, secondaries) == [name |-> name, secondaries |-> secondaries]
NoCloneCall == CloneCall("None", 0)
NoBuilt == Built("None", NewFunMetadata)

CloneInit ==
    /\ \E name \in CloneTitles, seconds \in CloneDurations,
          chapters \in 0..MaxChapters, bookmarks \in 0..MaxChapters,
          file \in {NoFile, [title |-> "a", channel |-> ""]} :
         kSource = [metadata |-> [title |-> name,
                                  chapters |-> [i \in 1..chapters |-> "chapter"],
                                  bookmarks |-> [i \in 1..bookmarks |-> "bookmark"],
                                  duration |-> seconds],
                    file |-> file]
    /\ kCall = NoCloneCall
    /\ kResult = NoBuilt
    /\ NormIdle /\ VerIdle /\ MergeIdle /\ CodecIdle /\ LimitIdle /\ SimplifyIdle /\ PeaksIdle /\ DiscoverIdle /\ ChainIdle /\ EdgeIdle /\ SeekIdle /\ NamesIdle /\ SceneIdle

\* script.clone()
CloneScript ==
    /\ kCall = NoCloneCall
    /\ kCall' = CloneCall("clone", 0)
    /\ kResult' = Funscript_clone(kSource)
    /\ UNCHANGED <<kSource, outsideClone>>

\* Funscript.mergeMultiAxis([script, *secondaryScripts])
MergeAsPrimary ==
    /\ kCall = NoCloneCall
    /\ \E secondaries \in 0..MaxSecondaries :
         /\ kCall' = CloneCall("mergeMultiAxis", secondaries)
         /\ kResult' = MergedParent(kSource, secondaries)
    /\ UNCHANGED <<kSource, outsideClone>>

CloneNext == CloneScript \/ MergeAsPrimary

SpecClone == CloneInit /\ [][CloneNext]_vars

(***************************************************************************)
(* Claim about metadata                                                    *)
(***************************************************************************)
\* C29: a Funscript built from a Funscript object has the metadata of its
\* source: the result of clone() and the merged parent that mergeMultiAxis
\* builds from the primary script carry the title, chapters, bookmarks and
\* duration of the script they were built from.
C29_ConstructionKeepsMetadata ==
    kCall # NoCloneCall =>
        /\ kResult.type = "Funscript"
        /\ kResult.metadata = kSource.metadata

(***************************************************************************)
(* SpecNames: of a merged funscript, v1.1 with an "axes" array or v2.0     *)
(* with a "channels" object, the channel names are asked of                *)
(* get_merged_channels (funscript_utils.py) and of the parser.             *)
(***************************************************************************)
MaxAxes == 2   \* most entries of "axes", and most keys of "channels"

\* The "id" of an axes entry: a string, or a number of older files.
AxisLabel(label) == [label |-> label, number |-> -1]
AxisNumber(number) == [label |-> "", number |-> number]

\* converter.numericAxisMap, for the numbers 0 to 6.
numericAxisMap == <<"L0", "L1", "L2", "R0", "R1", "R2", "A1">>

\* converter.axisToChannelName(axis) for an id of either kind.
AxisIdToChannelName(id) ==
    IF id.label = "" /\ id.number \in 0..6
    THEN axisToChannelName(numericAxisMap[id.number + 1])
    ELSE axisToChannelName(id.label)

\* The dict id_to_channel of get_merged_channels, for the numbers 0 to 5.
id_to_channel == <<"stroke", "surge", "sway", "pitch", "roll", "twist">>

\* What get_funscript_version inspects of the object.
ShapeOf(data) ==
    [version |-> data.version,
     channels |-> IF data.channels = <<>> THEN Absent ELSE "object",
     axes |-> IF data.axes = <<>> THEN Absent ELSE "array",
     metadata |-> Absent]

\* The channel names of the entries of "axes": an id outside the dict is
\* passed over.
RECURSIVE AxesNames(_, _)
AxesNames(axes, i) ==
    IF i > Len(axes) THEN <<>>
    ELSE IF axes[i].label = "" /\ axes[i].number \in 0..5
         THEN <<id_to_channel[axes[i].number + 1]>> \o AxesNames(axes, i + 1)
         ELSE AxesNames(axes, i + 1)

get_merged_channels(funscript_data) ==
    LET version == get_funscript_version(ShapeOf(funscript_data))
    IN  IF version = "2.0" THEN funscript_data.channels
        ELSE IF version = "1.1" THEN AxesNames(funscript_data.axes, 1)
        ELSE <<>>

\* The keys of a dict filled in the order of `names`: a name met again
\* keeps its first place.
RECURSIVE KeysInOrder(_, _, _)
KeysInOrder(names, keys, i) ==
    IF i > Len(names) THEN keys
    ELSE IF \E k \in 1..Len(keys) : keys[k] = names[i]
         THEN KeysInOrder(names, keys, i + 1)
         ELSE KeysInOrder(names, Append(keys, names[i]), i + 1)

\* list(Funscript(data).channels): channelsOrAxes is "channels" when it is
\* truthy, else "axes", whose entries are named by axisToChannelName.
ParsedChannelNames(data) ==
    IF data.channels # <<>> THEN data.channels
    ELSE KeysInOrder([i \in 1..Len(data.axes) |-> AxisIdToChannelName(data.axes[i])], <<>>, 1)

NamesIds ==
    {AxisLabel(pair[1]) : pair \in AxisPairs} \cup {AxisNumber(n) : n \in 0..6}

NamesChannels == {"roll", "twist", "pitch", "foo"}

NoNames == [called |-> FALSE, names |-> <<>>]
NamesOf(names) == [called |-> TRUE, names |-> names]

NamesInit ==
    /\ \/ \E n \in 1..MaxAxes, version \in {Absent, "1.1"} :
            \E axes \in [1..n -> NamesIds] :
               /\ \A i, j \in 1..n : i # j => axes[i] # axes[j]
               /\ gData = [version |-> version, axes |-> axes, channels |-> <<>>]
       \/ \E n \in 1..MaxAxes :
            \E channels \in [1..n -> NamesChannels] :
               /\ \A i, j \in 1..n : i # j => channels[i] # channels[j]
               /\ gData = [version |-> "2.0", axes |-> <<>>, channels |-> channels]
    /\ gNames = NoNames
    /\ gParsed = NoNames
    /\ NormIdle /\ VerIdle /\ MergeIdle /\ CodecIdle /\ LimitIdle /\ SimplifyIdle /\ PeaksIdle /\ DiscoverIdle /\ ChainIdle /\ EdgeIdle /\ SeekIdle /\ CloneIdle /\ SceneIdle

\* names = get_merged_channels(data)
GetMergedChannels ==
    /\ gNames = NoNames
    /\ gNames' = NamesOf(get_merged_channels(gData))
    /\ UNCHANGED <<gData, gParsed, outsideNames>>

\* parsed = list(Funscript(data).channels)
ParseChannels ==
    /\ gParsed = NoNames
    /\ gParsed' = NamesOf(ParsedChannelNames(gData))
    /\ UNCHANGED <<gData, gNames, outsideNames>>

NamesNext == GetMergedChannels \/ ParseChannels

SpecNames == NamesInit /\ [][NamesNext]_vars

(***************************************************************************)
(* Claim about get_merged_channels                                         *)
(***************************************************************************)
\* C28: get_merged_channels returns the channel names the parser gives the
\* channels of the same object: for v1.1, axisToChannelName of each axis id,
\* a label L0, L1, L2, R0, R1, R2, A1 or a number 0 to 6; for v2.0 the keys
\* of "channels".
C28_MergedChannelsAgreeWithParser ==
    (gNames.called /\ gParsed.called) => gNames.names = gParsed.names

(***************************************************************************)
(* SpecScene: the files of one scene, "Scene", with the directory          *)
(* originalFunscripts/ beside them, under process_scene and unmerge_scene  *)
(* (funscriptMerger.py).  A file name is a sequence of tokens, as in       *)
(* SpecDiscover.  Of the content of a file the model keeps which action    *)
(* list is the primary one and which belongs to each channel (an action    *)
(* list is a number: the lists are non-empty, of whole numbers, and the    *)
(* codec leaves such lists as they are), the version, the axis ids or      *)
(* channel names, and whether the file was written by the plugin, whose    *)
(* output carries generated metadata.  Every file holds a JSON object.     *)
(* The directory lists its names in lexicographic order.  Removing and     *)
(* moving fail for a missing file only; a write fails for the paths the    *)
(* call is given as failing.                                               *)
(***************************************************************************)
MaxRuns == 2   \* most calls on the scene

base_path == <<"Scene">>

Here(name) == [dir |-> ".", name |-> name]
InOriginals(name) == [dir |-> "originalFunscripts", name |-> name]

\* f"{base}.funscript", f"{base}.max.funscript", f"{base}.{channel}.funscript"
MainName(base) == base \o DotFunscript
MaxName(base) == base \o DotMaxDotFunscript
ChannelName(base, channel) == base \o <<".", channel>> \o DotFunscript

\* The content of a file: a script of version 1.0 has no axes and no
\* channels; tags[k] is the action list of the k-th axis or channel.
Content(version, main, axes, channels, tags, form) ==
    [version |-> version, main |-> main, axes |-> axes, channels |-> channels,
     tags |-> tags, form |-> form]

\* A v1.0 script a user put there, and one the plugin wrote.
SingleScript(tag) == Content("1.0", tag, <<>>, <<>>, <<>>, "original")
ExtractedScript(tag) == Content("1.0", tag, <<>>, <<>>, <<>>, "written")

\* What read_funscript_json returns for a missing file, and the ValueError
\* of Funscript.__init__ in place of a merged script.
NoData == Content("None", 0, <<>>, <<>>, <<>>, "None")
MergeRaised == Content("ValueError", 0, <<>>, <<>>, <<>>, "None")

\* The files, the directory originalFunscripts/, the paths the call has
\* written, moved or removed, and the paths on which a write fails.
World(files, originals, touched, failing) ==
    [files |-> files, originals |-> originals, touched |-> touched, failing |-> failing]

\* A world together with the value a function returned on it.
Done(w, value) == [w |-> w, value |-> value]

\* os.path.exists(path)
exists(w, path) == path \in DOMAIN w.files

read_funscript_json(w, file_path) ==
    IF exists(w, file_path) THEN w.files[file_path] ELSE NoData

is_merged_funscript(data) == get_funscript_version(ShapeOf(data)) \in {"1.1", "2.0"}

\* save_funscript(file_path, data): False when the file cannot be written.
save_funscript(w, file_path, data) ==
    IF file_path \in w.failing THEN Done(w, FALSE)
    ELSE Done([w EXCEPT !.files = DictSet(@, file_path, data),
                        !.touched = @ \cup {file_path}], TRUE)

\* os.remove(path): OSError for a missing file.
remove(w, path) ==
    IF ~exists(w, path) THEN Done(w, FALSE)
    ELSE Done([w EXCEPT !.files = [p \in (DOMAIN w.files) \ {path} |-> w.files[p]],
                        !.touched = @ \cup {path}], TRUE)

\* shutil.move(src, dst) for files: OSError for a missing src; an existing
\* dst is replaced; a file moved onto itself stays.
move(w, src, dst) ==
    IF ~exists(w, src) THEN Done(w, FALSE)
    ELSE IF src = dst THEN Done(w, TRUE)
    ELSE Done([w EXCEPT !.files = [p \in ((DOMAIN w.files) \ {src}) \cup {dst} |->
                                      IF p = dst THEN w.files[src] ELSE w.files[p]],
                        !.touched = @ \cup {src, dst}], TRUE)

\* os.makedirs(originals_dir, exist_ok=True)
makedirs(w) == [w EXCEPT !.originals = TRUE]

\* script.toJSON({'version': version}) of a parsed script: v1.1 names each
\* channel by its axis id, v2.0 by its channel name.
ScriptToJSON(main, names, tags, version) ==
    Content(version, main,
            IF version = "1.1"
            THEN [k \in 1..Len(names) |-> AxisLabel(channelNameToAxis(names[k], names[k]))]
            ELSE <<>>,
            IF version = "2.0" THEN names ELSE <<>>,
            tags, "written")

\* merge_funscripts(scripts, target_version): scripts is the dict, a
\* sequence of [axis, data] in insertion order.  The primary script is that
\* of 'stroke', 'L0' or 'main', else the first; every other one becomes a
\* channel with its primary actions.  Funscript(main, {'channels': ...})
\* raises ValueError when main has channels or axes of its own.
merge_funscripts(scripts, target_version) ==
    LET named(axis) == {k \in 1..Len(scripts) : scripts[k].axis = axis}
        main_axis == IF named("stroke") # {} THEN CHOOSE k \in named("stroke") : TRUE
                     ELSE IF named("L0") # {} THEN CHOOSE k \in named("L0") : TRUE
                     ELSE IF named("main") # {} THEN CHOOSE k \in named("main") : TRUE
                     ELSE 1
        main_script_data == scripts[main_axis].data
        channels_data == SelectIdx(scripts, LAMBDA k : k # main_axis, 1)
    IN  IF channels_data = <<>>
        THEN ScriptToJSON(main_script_data.main,
                          ParsedChannelNames(main_script_data), main_script_data.tags,
                          target_version)
        ELSE IF main_script_data.axes # <<>> \/ main_script_data.channels # <<>>
        THEN MergeRaised
        ELSE ScriptToJSON(main_script_data.main,
                          [k \in 1..Len(channels_data) |-> channels_data[k].axis],
                          [k \in 1..Len(channels_data) |-> channels_data[k].data.main],
                          target_version)

\* convert_funscript_format(funscript_data, target_version): the data
\* itself when it has the version already, None (NoData) for a v1.0 script.
convert_funscript_format(funscript_data, target_version) ==
    LET current_version == get_funscript_version(ShapeOf(funscript_data))
    IN  IF current_version = target_version THEN funscript_data
        ELSE IF current_version = "1.0" THEN NoData
        ELSE ScriptToJSON(funscript_data.main, ParsedChannelNames(funscript_data),
                          funscript_data.tags, target_version)

\* An entry of a dict of scripts or of paths, keyed by axis or channel.
Entry(axis, path, data) == [axis |-> axis, path |-> path, data |-> data]

\* dict.update: a key met again keeps its place and takes the new entry.
RECURSIVE DictUpdate(_, _, _)
DictUpdate(dict, items, i) ==
    IF i > Len(items) THEN dict
    ELSE LET met == {k \in 1..Len(dict) : dict[k].axis = items[i].axis}
         IN  IF met = {} THEN DictUpdate(Append(dict, items[i]), items, i + 1)
             ELSE DictUpdate([dict EXCEPT ![CHOOSE k \in met : TRUE] = items[i]], items, i + 1)

\* The loop of unmerge_funscript over scripts_list: the primary script goes
\* to f"{base}.funscript" under the key 'stroke', a channel to
\* f"{base}.{channel}.funscript"; saved_files holds the ones written.
RECURSIVE SaveScripts(_, _, _, _)
SaveScripts(w, scripts_list, saved_files, i) ==
    IF i > Len(scripts_list) THEN Done(w, saved_files)
    ELSE With(save_funscript(w, scripts_list[i].path, scripts_list[i].data),
              LAMBDA saved :
                 SaveScripts(saved.w, scripts_list,
                             IF saved.value
                             THEN DictUpdate(saved_files, <<scripts_list[i]>>, 1)
                             ELSE saved_files,
                             i + 1))

\* unmerge_funscript(funscript_data, base_path): the saved files, <<>> for
\* None.  The channels have the names the parser gives them.
unmerge_funscript(w, funscript_data, base) ==
    IF get_funscript_version(ShapeOf(funscript_data)) = "1.0" THEN Done(w, <<>>)
    ELSE LET names == ParsedChannelNames(funscript_data)
             scripts_list ==
                <<Entry("stroke", Here(MainName(base)), ExtractedScript(funscript_data.main))>>
                \o [k \in 1..Len(names) |->
                       Entry(names[k], Here(ChannelName(base, names[k])),
                             ExtractedScript(funscript_data.tags[k]))]
         IN  SaveScripts(w, scripts_list, <<>>, 1)

\* for file_path in paths: shutil.move(file_path, originalFunscripts/name),
\* an OSError passed over.
RECURSIVE MoveToOriginals(_, _, _)
MoveToOriginals(w, paths, i) ==
    IF i > Len(paths) THEN w
    ELSE With(move(w, paths[i], InOriginals(paths[i].name)).w,
              LAMBDA moved : MoveToOriginals(moved, paths, i + 1))

\* for file_path in paths: os.remove(file_path), an OSError passed over.
RECURSIVE RemoveAll(_, _, _)
RemoveAll(w, paths, i) ==
    IF i > Len(paths) THEN w
    ELSE With(remove(w, paths[i]).w, LAMBDA removed : RemoveAll(removed, paths, i + 1))

\* The paths of a dict of entries, in its order.
PathsOf(entries) == [k \in 1..Len(entries) |-> entries[k].path]

\* {axis: read_funscript_json(path)} over the entries whose file can be read.
ReadAll(w, entries) ==
    LET readable == SelectIdx(entries, LAMBDA k : exists(w, entries[k].path), 1)
    IN  [k \in 1..Len(readable) |->
            Entry(readable[k].axis, readable[k].path, w.files[readable[k].path])]

\* if os.path.exists(final): os.remove(final); shutil.move(max_path, final)
\* inside one try: False (in `value`) when the move raises.
ReplaceByMax(w, max_path, final_path) ==
    With(IF exists(w, final_path) THEN remove(w, final_path).w ELSE w,
         LAMBDA cleared : move(cleared, max_path, final_path))

\* handle_original_files(scripts, mode, base_path, max_path)
handle_original_files(w, scripts, mode, base, max_path) ==
    IF mode = 0 THEN w
    ELSE IF mode = 1
    THEN With(MoveToOriginals(makedirs(w), PathsOf(scripts), 1),
              LAMBDA moved : move(moved, max_path, Here(MainName(base))).w)
    ELSE IF mode = 2
    THEN With(RemoveAll(w, PathsOf(scripts), 1),
              LAMBDA removed : move(removed, max_path, Here(MainName(base))).w)
    ELSE w

\* What a call returns: "True", "False", or the exception it raises.
TargetVersion(settings) == IF settings.mergingMode = 1 THEN "1.1" ELSE "2.0"

\* `merged and save_funscript(path, merged)` and the return that follows;
\* the ValueError of merge_funscripts leaves the function before the save.
SaveMerged(w, path, merged) ==
    IF merged = MergeRaised THEN Done(w, "ValueError")
    ELSE IF merged = NoData THEN Done(w, "False")
    ELSE With(save_funscript(w, path, merged),
              LAMBDA saved : Done(saved.w, IF saved.value THEN "True" ELSE "False"))

\* The axis files of the scene found in originalFunscripts/, in the order
\* the axes are gone through.
AxesInOriginals(w, axes_order) ==
    IF ~w.originals THEN <<>>
    ELSE LET found == SelectIdx(axes_order,
                                LAMBDA k : exists(w, InOriginals(ChannelName(base_path, axes_order[k]))), 1)
         IN  [k \in 1..Len(found) |->
                Entry(found[k], InOriginals(ChannelName(base_path, found[k])), NoData)]

\* The elements of a sequence.
Range(s) == {s[k] : k \in 1..Len(s)}

\* process_single_variant, the end of the branch of a merged main script:
\* the script is converted when it has another version than the target.
ConvertVariant(w, data, main_path, target_version) ==
    IF get_funscript_version(ShapeOf(data)) = target_version THEN Done(w, "False")
    ELSE SaveMerged(w, main_path, convert_funscript_format(data, target_version))

\* process_single_variant, the branch `if main_path and not axes`: the
\* variant has no axis file beside it, and the axes are looked for in
\* originalFunscripts/ in the order of KNOWN_AXES, a set.
VariantAlone(w, variant_base, main_path, settings, known_axes) ==
    LET data == read_funscript_json(w, main_path)
        target_version == TargetVersion(settings)
        available_axes == AxesInOriginals(w, known_axes)
        existing_channels == Range(get_merged_channels(data))
        missing_axes == {e.axis : e \in Range(available_axes)} \ existing_channels
        original_main_in_originals == InOriginals(MainName(variant_base))
        all_originals_found ==
            /\ exists(w, original_main_in_originals)
            /\ \A ch \in existing_channels : exists(w, InOriginals(ChannelName(base_path, ch)))
    IN  IF data = NoData THEN Done(w, "False")
        ELSE IF available_axes = <<>> THEN Done(w, "False")
        ELSE IF ~is_merged_funscript(data)
        THEN SaveMerged(w, main_path,
                        merge_funscripts(DictUpdate(<<Entry("main", main_path, data)>>,
                                                    ReadAll(w, available_axes), 1),
                                         target_version))
        ELSE IF missing_axes = {} THEN ConvertVariant(w, data, main_path, target_version)
        ELSE IF all_originals_found
        THEN SaveMerged(w, main_path,
                        merge_funscripts(DictUpdate(<<Entry("main", original_main_in_originals,
                                                            w.files[original_main_in_originals])>>,
                                                    ReadAll(w, available_axes), 1),
                                         target_version))
        ELSE With(unmerge_funscript(w, data, variant_base),
                  LAMBDA unmerged :
                     IF unmerged.value = <<>> THEN Done(unmerged.w, "False")
                     ELSE With(remove(unmerged.w, main_path).w,
                               LAMBDA removed :
                                  With(ReadAll(removed, unmerged.value),
                                       LAMBDA unmerged_scripts :
                                          IF unmerged_scripts # <<>>
                                          THEN SaveMerged(removed, main_path,
                                                  merge_funscripts(
                                                     DictUpdate(unmerged_scripts,
                                                                ReadAll(removed, available_axes), 1),
                                                     target_version))
                                          ELSE ConvertVariant(removed, data, main_path,
                                                              target_version))))

\* process_single_variant, the part after the branches without axes: the
\* variant and its axis files are merged into f"{variant_base}.max.funscript".
VariantWithAxes(w, variant_base, main_path, axes, settings) ==
    LET scripts_data == ReadAll(w, <<Entry("main", main_path, NoData)>> \o axes)
        merged == merge_funscripts(scripts_data, TargetVersion(settings))
        max_path == Here(MaxName(variant_base))
        final_path == Here(MainName(variant_base))
    IN  IF Len(scripts_data) <= 1 THEN Done(w, "False")
        ELSE IF merged = MergeRaised THEN Done(w, "ValueError")
        ELSE With(save_funscript(w, max_path, merged),
                  LAMBDA saved :
                     IF ~saved.value THEN Done(saved.w, "False")
                     ELSE IF settings.fileHandlingMode \in {1, 2}
                     THEN With(IF settings.fileHandlingMode = 1
                               THEN MoveToOriginals(makedirs(saved.w), PathsOf(scripts_data), 1)
                               ELSE RemoveAll(saved.w, PathsOf(scripts_data), 1),
                               LAMBDA handled :
                                  With(ReplaceByMax(handled, max_path, final_path),
                                       LAMBDA renamed :
                                          Done(renamed.w,
                                               IF renamed.value THEN "True" ELSE "False")))
                     ELSE Done(saved.w, "True"))

\* process_single_variant(variant_base_path, variant_data, settings); the
\* path of a variant is that of its file, so main_path is never empty.
process_single_variant(w, variant_base, variant_data, settings, known_axes) ==
    IF variant_data.axes = <<>>
    THEN VariantAlone(w, variant_base, variant_data.path, settings, known_axes)
    ELSE VariantWithAxes(w, variant_base, variant_data.path, variant_data.axes, settings)

\* The tokens of the file names of the model, in the order of their strings.
SceneTokens ==
    <<" (Intense)", ".", "Scene", "default", "funscript", "max", "originalFunscripts",
      "pitch", "roll", "twist">>

TokenRank(token) == CHOOSE k \in 1..Len(SceneTokens) : SceneTokens[k] = token

\* a < b for two names, as Python compares their strings.
RECURSIVE NameBefore(_, _, _)
NameBefore(a, b, i) ==
    IF i > Len(a) THEN i <= Len(b)
    ELSE IF i > Len(b) THEN FALSE
    ELSE IF a[i] = b[i] THEN NameBefore(a, b, i + 1)
    ELSE TokenRank(a[i]) < TokenRank(b[i])

\* sorted(names)
RECURSIVE SortedNames(_)
SortedNames(names) ==
    IF names = {} THEN <<>>
    ELSE LET first == CHOOSE a \in names : \A b \in names \ {a} : NameBefore(a, b, 1)
         IN  <<first>> \o SortedNames(names \ {first})

\* os.listdir(directory) of the scene's directory.
listdir(w) == SortedNames({p.name : p \in {q \in DOMAIN w.files : q.dir = "."}})

\* find_funscript_paths(base_path): 'main' and the axes of AXIS_EXTENSIONS
\* whose file exists, in that order.
find_funscript_paths(w, base) ==
    LET axes == SelectIdx(AXIS_EXTENSIONS,
                          LAMBDA k : exists(w, Here(ChannelName(base, AXIS_EXTENSIONS[k]))), 1)
    IN  (IF exists(w, Here(MainName(base)))
         THEN <<Entry("main", Here(MainName(base)), NoData)>> ELSE <<>>)
        \o [k \in 1..Len(axes) |-> Entry(axes[k], Here(ChannelName(base, axes[k])), NoData)]

\* The axes of a plan of find_script_variants_and_axes as a dict in
\* insertion order, which is the order of the directory.
SharedAxes(plan) ==
    LET names == SortedNames({<<axis>> : axis \in DOMAIN plan.axes})
    IN  [k \in 1..Len(names) |-> Entry(names[k][1], Here(plan.axes[names[k][1]]), NoData)]

\* process_scene, the axes handed to a variant: with originalFunscripts/
\* there, each shared axis from that directory when it has the file, else
\* from the scene's directory when the file is still there; without it, all
\* of the shared axes.
AxesOfVariant(w, shared_axes) ==
    IF ~w.originals THEN shared_axes
    ELSE LET held == SelectIdx(shared_axes,
                               LAMBDA k : \/ exists(w, InOriginals(shared_axes[k].path.name))
                                          \/ exists(w, shared_axes[k].path), 1)
         IN  [k \in 1..Len(held) |->
                IF exists(w, InOriginals(held[k].path.name))
                THEN Entry(held[k].axis, InOriginals(held[k].path.name), NoData)
                ELSE held[k]]

\* process_scene, the loop over sorted(variants.items()); an exception
\* ends the loop and the call.
RECURSIVE ProcessVariants(_, _, _, _, _, _, _)
ProcessVariants(w, plan, keys, settings, known_axes, any_merged, i) ==
    IF i > Len(keys) THEN Done(w, IF any_merged THEN "True" ELSE "False")
    ELSE With(process_single_variant(
                 w, base_path \o plan.variants[keys[i]].suffix,
                 [path |-> Here(plan.variants[keys[i]].path),
                  axes |-> AxesOfVariant(w, SharedAxes(plan)),
                  suffix |-> plan.variants[keys[i]].suffix],
                 settings, known_axes),
              LAMBDA one :
                 IF one.value \notin {"True", "False"} THEN one
                 ELSE ProcessVariants(one.w, plan, keys, settings, known_axes,
                                      any_merged \/ one.value = "True", i + 1))

\* process_scene with supportMultipleScriptVersions
SceneVariants(w, settings, known_axes) ==
    With(find_script_variants_and_axes(listdir(w), TRUE, base_path),
         LAMBDA plan :
            IF DOMAIN plan.variants = {} THEN Done(w, "False")
            ELSE ProcessVariants(w, plan, SortedNames(DOMAIN plan.variants),
                                 settings, known_axes, FALSE, 1))

\* process_scene, scripts_to_handle of the branch of an existing
\* .max.funscript: the main script and the files of the merged channels,
\* from the scene's directory first and from originalFunscripts/ for the
\* keys not yet there.
ScriptsToHandle(w, merged_channels) ==
    LET here == (IF exists(w, Here(MainName(base_path)))
                 THEN <<Entry("main", Here(MainName(base_path)), NoData)>> ELSE <<>>)
                \o [k \in 1..Len(merged_channels) |->
                       Entry(merged_channels[k],
                             Here(ChannelName(base_path, merged_channels[k])), NoData)]
        originals == <<Entry("main", InOriginals(MainName(base_path)), NoData)>>
                     \o [k \in 1..Len(merged_channels) |->
                            Entry(merged_channels[k],
                                  InOriginals(ChannelName(base_path, merged_channels[k])), NoData)]
        found == SelectIdx(here, LAMBDA k : exists(w, here[k].path), 1)
        added == SelectIdx(originals,
                           LAMBDA k : /\ w.originals
                                      /\ exists(w, originals[k].path)
                                      /\ \A j \in 1..Len(found) : found[j].axis # originals[k].axis, 1)
    IN  DictUpdate(found, added, 1)

\* process_scene, the branch `if os.path.exists(max_path)`
SceneWithMax(w, settings) ==
    LET max_path == Here(MaxName(base_path))
        main_path == Here(MainName(base_path))
        data == read_funscript_json(w, max_path)
        target_version == TargetVersion(settings)
        needs_conversion == get_funscript_version(ShapeOf(data)) # target_version
        converted == convert_funscript_format(data, target_version)
    IN  IF converted = NoData THEN Done(w, "False")
        ELSE With(ScriptsToHandle(w, get_merged_channels(converted)),
                  LAMBDA scripts_to_handle :
                     IF ~needs_conversion /\ scripts_to_handle = <<>> THEN Done(w, "False")
                     ELSE With(IF needs_conversion THEN save_funscript(w, max_path, converted)
                               ELSE Done(w, TRUE),
                               LAMBDA saved :
                                  IF ~saved.value THEN Done(saved.w, "False")
                                  ELSE IF settings.fileHandlingMode = 0
                                  THEN Done(saved.w, IF needs_conversion THEN "True" ELSE "False")
                                  ELSE With(IF scripts_to_handle = <<>> THEN saved.w
                                            ELSE IF settings.fileHandlingMode = 1
                                            THEN MoveToOriginals(
                                                    makedirs(saved.w),
                                                    SelectIdx(PathsOf(scripts_to_handle),
                                                              LAMBDA k : scripts_to_handle[k].path.dir = ".", 1),
                                                    1)
                                            ELSE RemoveAll(saved.w, PathsOf(scripts_to_handle), 1),
                                            LAMBDA handled :
                                               With(ReplaceByMax(handled, max_path, main_path),
                                                    LAMBDA renamed :
                                                       Done(renamed.w,
                                                            IF renamed.value THEN "True"
                                                            ELSE "False")))))

\* for original_path in original_scripts: shutil.move(original_path, the
\* scene's directory); False (in `value`) at the first move that raises.
RECURSIVE MoveFromOriginals(_, _, _)
MoveFromOriginals(w, paths, i) ==
    IF i > Len(paths) THEN Done(w, TRUE)
    ELSE With(move(w, paths[i], Here(paths[i].name)),
              LAMBDA moved :
                 IF ~moved.value THEN moved ELSE MoveFromOriginals(moved.w, paths, i + 1))

\* process_scene, the end: the scripts found are merged into
\* .max.funscript and the originals handled by fileHandlingMode.
MergeFound(w, scripts_paths, settings) ==
    LET scripts_data == ReadAll(w, scripts_paths)
        merged == merge_funscripts(scripts_data, TargetVersion(settings))
        max_path == Here(MaxName(base_path))
    IN  IF scripts_data = <<>> THEN Done(w, "False")
        ELSE IF merged = MergeRaised THEN Done(w, "ValueError")
        ELSE With(save_funscript(w, max_path, merged),
                  LAMBDA saved :
                     IF ~saved.value THEN Done(saved.w, "False")
                     ELSE Done(handle_original_files(saved.w, scripts_paths,
                                                     settings.fileHandlingMode,
                                                     base_path, max_path), "True"))

\* process_scene, the branch of a main script that is merged already while
\* axis files lie beside it: with all of its originals in
\* originalFunscripts/ the merged script is removed and the originals are
\* moved back; otherwise it is renamed to .max.funscript and unmerged.
\* Either way the directory is scanned again and the scripts are merged.
MergedMainWithAxes(w, main_data, settings) ==
    LET main_path == Here(MainName(base_path))
        max_path == Here(MaxName(base_path))
        merged_channels == get_merged_channels(main_data)
        wanted == <<Entry("main", InOriginals(MainName(base_path)), NoData)>>
                  \o [k \in 1..Len(merged_channels) |->
                         Entry(merged_channels[k],
                               InOriginals(ChannelName(base_path, merged_channels[k])), NoData)]
        original_scripts == SelectIdx(wanted, LAMBDA k : exists(w, wanted[k].path), 1)
        all_originals_found == Len(original_scripts) = Len(wanted)
    IN  IF all_originals_found
        THEN With(MoveFromOriginals(remove(w, main_path).w, PathsOf(original_scripts), 1),
                  LAMBDA moved :
                     IF ~moved.value THEN Done(moved.w, "False")
                     ELSE MergeFound(moved.w, find_funscript_paths(moved.w, base_path), settings))
        ELSE With(move(w, main_path, max_path).w,
                  LAMBDA renamed :
                     With(unmerge_funscript(renamed, main_data, base_path),
                          LAMBDA unmerged :
                             IF unmerged.value = <<>> THEN Done(unmerged.w, "False")
                             ELSE With(remove(unmerged.w, max_path).w,
                                       LAMBDA removed :
                                          MergeFound(removed,
                                                     find_funscript_paths(removed, base_path),
                                                     settings))))

\* process_scene without supportMultipleScriptVersions and without a
\* .max.funscript
SceneWithoutMax(w, settings) ==
    LET scripts_paths == find_funscript_paths(w, base_path)
        target_version == TargetVersion(settings)
        single_data == read_funscript_json(w, scripts_paths[1].path)
        main_data == read_funscript_json(w, Here(MainName(base_path)))
    IN  IF scripts_paths = <<>> THEN Done(w, "False")
        ELSE IF Len(scripts_paths) = 1
        THEN IF ~is_merged_funscript(single_data) THEN Done(w, "False")
             ELSE IF get_funscript_version(ShapeOf(single_data)) = target_version
             THEN Done(w, "False")
             ELSE SaveMerged(w, scripts_paths[1].path,
                             convert_funscript_format(single_data, target_version))
        ELSE IF scripts_paths[1].axis = "main" /\ is_merged_funscript(main_data)
        THEN MergedMainWithAxes(w, main_data, settings)
        ELSE MergeFound(w, scripts_paths, settings)

\* process_scene(scene_id, base_path, settings)
process_scene(w, settings, known_axes) ==
    IF settings.mergingMode = 0 THEN Done(w, "False")
    ELSE IF settings.supportMultipleScriptVersions THEN SceneVariants(w, settings, known_axes)
    ELSE IF exists(w, Here(MaxName(base_path))) THEN SceneWithMax(w, settings)
    ELSE SceneWithoutMax(w, settings)

\* unmerge_scene(scene_id, base_path, settings)
unmerge_scene(w, settings) ==
    LET main_path == Here(MainName(base_path))
        max_path == Here(MaxName(base_path))
        data == read_funscript_json(w, main_path)
        merged_channels == get_merged_channels(data)
        existing_files ==
            {ch \in Range(merged_channels) :
                \/ exists(w, Here(ChannelName(base_path, ch)))
                \/ /\ settings.fileHandlingMode = 1
                   /\ w.originals
                   /\ exists(w, InOriginals(ChannelName(base_path, ch)))}
    IN  IF ~settings.enableUnmerge THEN Done(w, "False")
        ELSE IF ~exists(w, main_path) THEN Done(w, "False")
        ELSE IF get_funscript_version(ShapeOf(data)) = "1.0" THEN Done(w, "False")
        ELSE IF existing_files # {} THEN Done(w, "False")
        ELSE With(move(w, main_path, max_path).w,
                  LAMBDA renamed :
                     With(unmerge_funscript(renamed, data, base_path),
                          LAMBDA unmerged :
                             IF unmerged.value # <<>>
                             THEN Done(remove(unmerged.w, max_path).w, "True")
                             ELSE Done(move(unmerged.w, max_path, main_path).w, "False")))

MaxSceneFiles == 3   \* most files of the scene before the first call

\* The axes and channels of the merged scripts of the initial state: the
\* label ids merge_funscripts writes, the numeric ids of older files, and
\* channel names.
MergedScripts(main, roll, other) ==
    {Content("1.1", main, <<AxisLabel("R1")>>, <<>>, <<roll>>, "written"),
     Content("1.1", main, <<AxisLabel("R1"), AxisLabel("R2")>>, <<>>, <<roll, other>>, "written"),
     Content("1.1", main, <<AxisNumber(4)>>, <<>>, <<roll>>, "original"),
     Content("1.1", main, <<AxisNumber(3)>>, <<>>, <<other>>, "original"),
     Content("2.0", main, <<>>, <<"roll">>, <<roll>>, "written"),
     Content("2.0", main, <<>>, <<"roll", "pitch">>, <<roll, other>>, "written")}

File(path, content) == [path |-> path, content |-> content]
NoFileHere == File(Here(<<>>), NoData)

\* The files the scene can start with; every action list is another one.
SceneChoices ==
    {File(Here(MainName(base_path)), SingleScript(1))}
    \cup {File(Here(MainName(base_path)), c) : c \in MergedScripts(1, 2, 3)}
    \cup {File(Here(MaxName(base_path)), c) : c \in MergedScripts(4, 5, 6)}
    \cup {File(Here(ChannelName(base_path, "roll")), SingleScript(7)),
          File(Here(ChannelName(base_path, "pitch")), SingleScript(8)),
          File(Here(ChannelName(base_path, "twist")), SingleScript(9)),
          File(Here(MainName(base_path \o <<" (Intense)">>)), SingleScript(10)),
          File(InOriginals(MainName(base_path)), SingleScript(11)),
          File(InOriginals(ChannelName(base_path, "roll")), SingleScript(12))}

\* The scene before the first call: at most MaxSceneFiles files, and
\* originalFunscripts/ when one of them lies in it.
SceneFiles(settings) ==
    /\ \E picks \in [1..MaxSceneFiles -> SceneChoices \cup {NoFileHere}] :
         LET chosen == {picks[k] : k \in 1..MaxSceneFiles} \ {NoFileHere}
         IN  /\ \A k \in 1..(MaxSceneFiles - 1) :
                   \/ picks[k] = NoFileHere
                   \/ /\ picks[k + 1] # NoFileHere
                      /\ NameBefore(picks[k].path.name \o <<picks[k].path.dir>>,
                                    picks[k + 1].path.name \o <<picks[k + 1].path.dir>>, 1)
             /\ sFiles = [p \in {f.path : f \in chosen} |->
                             (CHOOSE f \in chosen : f.path = p).content]
             /\ sOriginals = (\E f \in chosen : f.path.dir = "originalFunscripts")
    /\ sSettings = settings
    /\ sLog = <<>>
    /\ NormIdle /\ VerIdle /\ MergeIdle /\ CodecIdle /\ LimitIdle /\ SimplifyIdle /\ PeaksIdle /\ DiscoverIdle /\ ChainIdle /\ EdgeIdle /\ SeekIdle /\ CloneIdle /\ NamesIdle

Settings(mergingMode, fileHandlingMode, supportMultipleScriptVersions, enableUnmerge) ==
    [mergingMode |-> mergingMode, fileHandlingMode |-> fileHandlingMode,
     supportMultipleScriptVersions |-> supportMultipleScriptVersions,
     enableUnmerge |-> enableUnmerge]

\* The orders in which KNOWN_AXES, a set, hands out the axes of the model.
KnownAxesOrders == {<<"pitch", "roll", "twist">>, <<"twist", "roll", "pitch">>}

\* A call in the log of the scene.
Logged(name, failing, before, done) ==
    [name |-> name, failing |-> failing, before |-> before, after |-> done.w.files,
     touched |-> done.w.touched, returned |-> done.value]

SceneInit ==
    \E mergingMode \in {1, 2}, fileHandlingMode \in {0, 1, 2},
       supportMultipleScriptVersions \in BOOLEAN :
       SceneFiles(Settings(mergingMode, fileHandlingMode, supportMultipleScriptVersions, FALSE))

\* process_scene(scene_id, base_path, settings)
ProcessScene ==
    /\ Len(sLog) < MaxRuns
    /\ \E known_axes \in KnownAxesOrders :
         \E done \in {process_scene(World(sFiles, sOriginals, {}, {}), sSettings, known_axes)} :
            /\ sFiles' = done.w.files
            /\ sOriginals' = done.w.originals
            /\ sLog' = Append(sLog, Logged("process_scene", {}, sFiles, done))
    /\ UNCHANGED <<sSettings, outsideScene>>

SceneNext == ProcessScene

SpecScene == SceneInit /\ [][SceneNext]_vars

(***************************************************************************)
(* SpecUnmerge: unmerge_scene is called once on the files of a scene; the  *)
(* writes to some of the paths fail.                                       *)
(***************************************************************************)
\* The sets of paths on which a write fails.
UnmergeFailures ==
    {{}, {Here(MainName(base_path))}, {Here(ChannelName(base_path, "roll"))},
     {Here(MainName(base_path)), Here(ChannelName(base_path, "roll")),
      Here(ChannelName(base_path, "pitch")), Here(ChannelName(base_path, "twist"))}}

UnmergeInit ==
    \E fileHandlingMode \in {0, 1, 2}, enableUnmerge \in BOOLEAN :
       SceneFiles(Settings(1, fileHandlingMode, FALSE, enableUnmerge))

\* unmerge_scene(scene_id, base_path, settings)
UnmergeScene ==
    /\ sLog = <<>>
    /\ \E failing \in UnmergeFailures :
         \E done \in {unmerge_scene(World(sFiles, sOriginals, {}, failing), sSettings)} :
            /\ sFiles' = done.w.files
            /\ sOriginals' = done.w.originals
            /\ sLog' = Append(sLog, Logged("unmerge_scene", failing, sFiles, done))
    /\ UNCHANGED <<sSettings, outsideScene>>

UnmergeNext == UnmergeScene

SpecUnmerge == UnmergeInit /\ [][UnmergeNext]_vars

(***************************************************************************)
(* Claims about process_scene and unmerge_scene                            *)
(***************************************************************************)
\* Two contents hold the same script, whoever wrote the file.
SameScript(one, other) == [one EXCEPT !.form = "any"] = [other EXCEPT !.form = "any"]

\* The script at `path` before the call is, after it, at the same path or
\* under the same name in originalFunscripts/.
KeptByCall(call, path) ==
    \/ path \in DOMAIN call.after /\ SameScript(call.after[path], call.before[path])
    \/ /\ InOriginals(path.name) \in DOMAIN call.after
       /\ SameScript(call.after[InOriginals(path.name)], call.before[path])

\* C23: with fileHandlingMode 0 or 1, every single-axis script that is there
\* before a call of process_scene is, when the call has returned, unmodified
\* at its path or under originalFunscripts/.
C23_NoSingleAxisScriptLost ==
    \A k \in 1..Len(sLog) :
       (sSettings.fileHandlingMode \in {0, 1} /\ sLog[k].returned \in {"True", "False"}) =>
          \A path \in DOMAIN sLog[k].before :
             ~is_merged_funscript(sLog[k].before[path]) => KeptByCall(sLog[k], path)

\* The files unmerge_funscript writes for a merged script: the primary
\* script and one file for each channel the parser finds in it.
UnmergeOutputs(data) ==
    {Here(MainName(base_path))}
    \cup {Here(ChannelName(base_path, ch)) : ch \in Range(ParsedChannelNames(data))}

\* The scene held a merged script at Scene.funscript when unmerge_scene was
\* called.
UnmergeCalledOnMerged ==
    /\ Len(sLog) = 1
    /\ sLog[1].name = "unmerge_scene"
    /\ Here(MainName(base_path)) \in DOMAIN sLog[1].before
    /\ is_merged_funscript(sLog[1].before[Here(MainName(base_path))])

\* C24: unmerge_scene removes the merged script only when the primary script
\* and every channel were written as v1.0 files, and when one of these writes
\* fails the merged script is at Scene.funscript again.
C24_MergedScriptOutlivesFailedWrites ==
    UnmergeCalledOnMerged =>
        LET call == sLog[1]
            main_path == Here(MainName(base_path))
            max_path == Here(MaxName(base_path))
            data == call.before[main_path]
            at(path) == path \in DOMAIN call.after /\ SameScript(call.after[path], data)
        IN  /\ (~at(main_path) /\ ~at(max_path)) =>
                  \A path \in UnmergeOutputs(data) :
                     /\ path \in DOMAIN call.after
                     /\ call.after[path].version = "1.0"
            /\ (UnmergeOutputs(data) \cap call.failing # {}) => at(main_path)

\* C25: when a file Scene.<channel>.funscript is there for a channel of the
\* merged script, unmerge_scene returns False and changes no file.
C25_ExistingChannelFileStopsUnmerge ==
    (/\ UnmergeCalledOnMerged
     /\ \E path \in UnmergeOutputs(sLog[1].before[Here(MainName(base_path))]) \ {Here(MainName(base_path))} :
           path \in DOMAIN sLog[1].before) =>
        /\ sLog[1].returned = "False"
        /\ sLog[1].touched = {}
        /\ sLog[1].after = sLog[1].before

\* C26: after a call of process_scene that returned True, a second call with
\* the same settings returns False and writes, moves and removes no file.
C26_SecondCallChangesNothing ==
    (Len(sLog) = 2 /\ sLog[1].returned = "True") =>
        /\ sLog[2].returned = "False"
        /\ sLog[2].touched = {}
        /\ sLog[2].after = sLog[2].before

\* The scene before the first call had nothing but v1.0 scripts in its own
\* directory, two of them variants or more, one an axis file or more.
VariantsShareAxes(plan) ==
    /\ sSettings.supportMultipleScriptVersions
    /\ \A path \in DOMAIN sLog[1].before :
          path.dir = "." /\ sLog[1].before[path] = SingleScript(sLog[1].before[path].main)
    /\ Cardinality(DOMAIN plan.variants) >= 2
    /\ DOMAIN plan.axes # {}

\* C27: with supportMultipleScriptVersions, process_scene merges every
\* variant with all the axis files the variants share, under every
\* fileHandlingMode: the merged script of a variant holds the variant's
\* actions and those of each shared axis.
C27_EveryVariantGetsAllSharedAxes ==
    Len(sLog) >= 1 =>
        LET call == sLog[1]
            plan == find_script_variants_and_axes(
                       SortedNames({p.name : p \in DOMAIN call.before}), TRUE, base_path)
            result(key) ==
                IF sSettings.fileHandlingMode = 0
                THEN Here(MaxName(base_path \o plan.variants[key].suffix))
                ELSE Here(MainName(base_path \o plan.variants[key].suffix))
        IN  VariantsShareAxes(plan) =>
               \A key \in DOMAIN plan.variants :
                  /\ result(key) \in DOMAIN call.after
                  /\ call.after[result(key)].main = call.before[Here(plan.variants[key].path)].main
                  /\ Range(call.after[result(key)].tags)
                        = {call.before[Here(plan.axes[axis])].main : axis \in DOMAIN plan.axes}

====
